---------------------------- MODULE Spec2Model ----------------------------
(***************************************************************************)
(* The staged ingestion pipeline of rtt: batch.process_batch               *)
(* (src/src/rtt/batch.py).  One orchestrator coroutine admits the jobs,    *)
(* four pools of worker coroutines move them through the queues            *)
(* q_transcribe, q_enrich, q_embed and q_frames, and the files of the      *)
(* output directory (archive, checkpoint, scratch files, failures log)     *)
(* outlive a run.                                                          *)
(*                                                                         *)
(* Scheduling is asyncio's: a coroutine runs alone from one await to the   *)
(* next, so every action below is one such stretch of code.  The workers   *)
(* are created before admission but first run when the orchestrator        *)
(* awaits q_transcribe.join().  An external call (asyncio.to_thread, the   *)
(* remote frame extractor) is an await whose result - a value or an        *)
(* exception - is chosen by the environment when the call returns.         *)
(*                                                                         *)
(* types.py (src/src/rtt/types.py:28-33) declares VideoJob and Video       *)
(* without the page_url and collection attributes that batch.py:254-262,   *)
(* package.py:30 and __main__.py:156-162 read and pass.  The model follows *)
(* those callers: the packaging stretch of frames_worker may complete, and *)
(* it may also raise; a build in which the attribute reads always raise    *)
(* is the sub-behaviour in which it always raises.                         *)
(***************************************************************************)
EXTENDS Integers, Sequences, FiniteSets, TLC

\* ------------------------------------------------------------------ bounds

\* Length of the job list handed to process_batch.
NumJobs == 2
\* Number of successive runs of process_batch over the same output directory.
MaxRuns == 2
\* Largest worker-pool size tried (the concurrency_* arguments).
MaxPool == 2

VideoIds == {"a", "b"}

\* ------------------------------------------------------------------- state

VARIABLES
    \* files of the output directory
    rtt,            \* {video_id}.rtt: "none", "ok" (complete) or "partial"
    ckpt,           \* {video_id}.rtt.json: "absent" or the persisted status
    audio,          \* {video_id}.audio exists
    video,          \* {video_id}.video exists
    framesdir,      \* {video_id}.frames/ exists
    faillog,        \* failures.jsonl: the job (index) each line records, in file order
    \* arguments of process_batch
    jobs,           \* the job list: records [video_id, youtube]
    skip_enrich,
    pool,           \* concurrency_* by stage
    \* the run
    run,            \* ordinal of the current run
    log_base,       \* length of failures.jsonl when the run began
    opc,            \* orchestrator: "admit", "defer", "join", "done"
    oidx,           \* admit/defer: next index; join: index into JoinOrder
    woken,          \* the awaited queue's _finished event was set for the orchestrator
    deferred_new,   \* job indices deferred to the Transcribe queue
    queue,          \* by stage: the asyncio.Queue's items (job indices)
    unfinished,     \* by stage: the asyncio.Queue's _unfinished_tasks
    held,           \* by stage: the jobs its workers are processing
    wpc,            \* by job: the await its worker is suspended at, or its outcome
    jstatus,        \* by job: j.status["status"] of the _Job object
    results,        \* results: the archive paths (video_ids), in order
    done_count,
    skipped,
    \* history of the run
    called,         \* by job: the external services invoked for it
    loaded,         \* jobs whose checkpoint _load_status has read
    admitted,       \* by job: the queue admission put it on, "skip" or "none"
    last_failed,    \* by job: j.status["status"] when it failed in the run before, or "-"
    crashed,        \* the run before this one was killed, it did not return
    \* the data of one job, followed through the stages and the runs
    d_pc,           \* the stage the job is in, or how its run ended
    d_status,       \* j.status, the dict that _save_status writes
    d_ckpt,         \* the content of {video_id}.rtt.json; status "absent": no file
    d_segs,         \* j.segments
    d_arch,         \* {video_id}.rtt: whether it exists, and its segments
    d_log,          \* the errors of the lines this run appended to failures.jsonl
    d_calls,        \* the services this run called for the job
    d_reply,        \* what the services of transcribe_worker replied in this run
    \* AssemblyAITranscriber.transcribe_url, one call
    t_pc,           \* "call" before the call, "returned" or "raised" after it
    t_video_id,     \* the video_id argument
    t_transcript,   \* the transcript the service returned: utterances and words
    t_segments,     \* the segments transcribe_url returned
    \* the frames of one job: frames.extract or extract_remote, then packaging
    f_pc,           \* "extract" or "remote" while frames are taken, then "packaged"
    f_timestamps,   \* the start_seconds of the segments, in tenths of a second
    f_dir,          \* the names of the files in {video_id}.frames/
    f_paths,        \* by segment: "pending", "None" or the frame's file name
    f_archive,      \* the archive: the segments' frame_path and the frame entries
    f_concurrency,  \* extract_remote's concurrency argument, 0 under extract
    f_sem,          \* the value of extract_remote's semaphore
    \* package.create followed by package.load
    p_pc,           \* "create", "load", "loaded" or "raised"
    p_video,        \* the Video given to create
    p_segments,     \* the segments given to create
    p_frames,       \* the files of the frames directory given to create, or none
    p_archive,      \* the archive file: manifest, parquet rows, frame entries
    p_loaded,       \* what load returned: video and segments
    \* the vector index and the search service built on it
    s_pc,           \* "index": a Database in use; "boot", "serving": create_app
    s_files,        \* the segment lists to add, or the archives found at boot
    s_i,            \* how many of them have been handled
    videos,         \* create_app's videos: video_id -> header of its archive
    rtt_paths_by_video, \* video_id -> the archive it was registered from
    _tables,        \* the tables added, each with its embedding chunk
    _merged,        \* the merged table and its normalized embeddings, or None
    s_call,         \* the last call or request
    s_result        \* what it returned

\* the state of the models of single functions, which process_batch's
\* scheduling leaves alone
data == <<d_pc, d_status, d_ckpt, d_segs, d_arch, d_log, d_calls, d_reply>>
trans == <<t_pc, t_video_id, t_transcript, t_segments>>
frm == <<f_pc, f_timestamps, f_dir, f_paths, f_archive, f_concurrency, f_sem>>
pkg == <<p_pc, p_video, p_segments, p_frames, p_archive, p_loaded>>
srv == <<s_pc, s_files, s_i, videos, rtt_paths_by_video, _tables, _merged, s_call, s_result>>
aside == <<data, trans, frm, pkg, srv>>

\* the models of single functions at rest
DataIdle ==
    /\ d_pc = "idle"
    /\ d_status = <<>>
    /\ d_ckpt = <<>>
    /\ d_segs = <<>>
    /\ d_arch = <<>>
    /\ d_log = <<>>
    /\ d_calls = {}
    /\ d_reply = <<>>

TransIdle ==
    /\ t_pc = "idle"
    /\ t_video_id = "a"
    /\ t_transcript = <<>>
    /\ t_segments = <<>>

FramesIdle ==
    /\ f_pc = "idle"
    /\ f_timestamps = <<>>
    /\ f_dir = {}
    /\ f_paths = <<>>
    /\ f_archive = <<>>
    /\ f_concurrency = 0
    /\ f_sem = 0

PackageIdle ==
    /\ p_pc = "idle"
    /\ p_video = <<>>
    /\ p_segments = <<>>
    /\ p_frames = <<>>
    /\ p_archive = <<>>
    /\ p_loaded = <<>>

ServerIdle ==
    /\ s_pc = "idle"
    /\ s_files = <<>>
    /\ s_i = 0
    /\ videos = <<>>
    /\ rtt_paths_by_video = <<>>
    /\ _tables = <<>>
    /\ _merged = <<>>
    /\ s_call = <<>>
    /\ s_result = <<>>

\* all of them at rest but the one named
IdleBut(g) ==
    /\ IF g = "data" THEN TRUE ELSE DataIdle
    /\ IF g = "trans" THEN TRUE ELSE TransIdle
    /\ IF g = "frames" THEN TRUE ELSE FramesIdle
    /\ IF g = "package" THEN TRUE ELSE PackageIdle
    /\ IF g = "server" THEN TRUE ELSE ServerIdle

AsideIdle == IdleBut("none")

disk == <<rtt, ckpt, audio, video, framesdir>>
args == <<jobs, skip_enrich, pool>>
orch == <<opc, oidx, woken, deferred_new>>
hist == <<called, loaded, admitted, last_failed>>
vars == <<rtt, ckpt, audio, video, framesdir, faillog, jobs, skip_enrich, pool,
          run, log_base, opc, oidx, woken, deferred_new, queue, unfinished,
          held, wpc, jstatus, results, done_count, skipped,
          called, loaded, admitted, last_failed, crashed, aside>>

\* ----------------------------------------------------------------- helpers

Stages == <<"transcribe", "enrich", "embed", "frames">>
StageSet == {Stages[i] : i \in 1..Len(Stages)}
JobIdx == 1..NumJobs

\* variant: the joins taken in the opposite order
JoinOrderReversed == <<"frames", "embed", "enrich", "transcribe">>

\* await q_transcribe.join(); q_enrich.join(); q_embed.join(); q_frames.join()
JoinOrder == <<"transcribe", "enrich", "embed", "frames">>

q_transcribe == queue["transcribe"]
q_enrich == queue["enrich"]
q_embed == queue["embed"]
q_frames == queue["frames"]

Vid(j) == jobs[j].video_id

\* _is_youtube(j)
IsYoutube(j) == jobs[j].youtube

\* json.loads(p.read_text()) returns: the file is not a truncated write
Parses(v) == ckpt[v] # "corrupt"

\* _load_status: the file's status, {"status": "new"} when there is no file
LoadStatus(v) == IF ckpt[v] = "absent" THEN "new" ELSE ckpt[v]

\* batch.py:313-318: status["segments"] is there to build j.segments from;
\* not asked of a status that is new.  Of the checkpoints tried only
\* {"status": "downloaded"}, which process_batch never writes, has no
\* segments.
Hydrates(v) == LoadStatus(v) = "new" \/ ckpt[v] # "downloaded"

\* asyncio.Queue.put_nowait: the item is queued and counted as unfinished
Put(qs, s, j) == [qs EXCEPT ![s] = Append(@, j)]
PutCount(u, s) == [u EXCEPT ![s] = @ + 1]

\* asyncio.Queue.task_done
TaskDoneCount(u, s) == [u EXCEPT ![s] = @ - 1]

\* task_done sets _finished when the count reaches zero; that wakes the
\* orchestrator when it awaits this queue's join().
Wakes(u, s) == opc = "join" /\ oidx <= Len(JoinOrder) /\ JoinOrder[oidx] = s /\ u[s] = 0

\* join(): returns at once when nothing is unfinished, else awaits _finished.
RECURSIVE FirstWait(_, _)
FirstWait(k, u) ==
    IF k > Len(JoinOrder) THEN k
    ELSE IF u[JoinOrder[k]] > 0 THEN k
    ELSE FirstWait(k + 1, u)

\* ------------------------------------------------------------------- Init

EmptyRun ==
    /\ opc = "admit"
    /\ oidx = 1
    /\ woken = FALSE
    /\ deferred_new = <<>>
    /\ queue = [s \in StageSet |-> <<>>]
    /\ unfinished = [s \in StageSet |-> 0]
    /\ held = [s \in StageSet |-> {}]
    /\ wpc = [j \in JobIdx |-> "none"]
    /\ jstatus = [j \in JobIdx |-> "none"]
    /\ results = <<>>
    /\ done_count = 0
    /\ skipped = 0
    /\ called = [j \in JobIdx |-> {}]
    /\ loaded = {}
    /\ admitted = [j \in JobIdx |-> "none"]

\* The job lists tried: any video_ids (a list may name one twice) and any
\* mix of platform and direct-URL jobs; the first job is named "a", which
\* loses nothing, the ids being interchangeable.
JobLists ==
    {js \in [JobIdx -> [video_id : VideoIds, youtube : BOOLEAN]] :
        js[1].video_id = "a"}

\* the pool sizes tried: the same for the four stages
SamePools == {[s \in StageSet |-> n] : n \in 1..MaxPool}

\* the first call of process_batch on an empty output directory, for a job
\* list of `lists` and pool sizes of `pools`
BatchStart(lists, pools) ==
    /\ rtt = [v \in VideoIds |-> "none"]
    /\ ckpt = [v \in VideoIds |-> "absent"]
    /\ audio = [v \in VideoIds |-> FALSE]
    /\ video = [v \in VideoIds |-> FALSE]
    /\ framesdir = [v \in VideoIds |-> FALSE]
    /\ faillog = <<>>
    /\ jobs \in lists
    /\ skip_enrich \in BOOLEAN
    /\ pool \in pools
    /\ run = 1
    /\ log_base = 0
    /\ EmptyRun
    /\ last_failed = [j \in JobIdx |-> "-"]
    /\ crashed = FALSE

BatchInit == BatchStart(JobLists, SamePools)

Init == BatchInit /\ AsideIdle


\* --------------------------------------------------- orchestrator: admission

\* variant: a resumed job is put on the queue of the stage it has completed
AdmitQueueSameStage(st) ==
    CASE st = "transcribed" -> "deferred"
      [] st = "enriched" -> "enrich"
      [] st = "embedded" -> "embed"
      [] OTHER -> "deferred"

\* batch.py:318-333: the queue a resumed job is put on, by its loaded status;
\* "deferred" stands for deferred_new.
AdmitQueue(st) ==
    CASE st = "transcribed" -> "enrich"
      [] st = "enriched" -> "embed"
      [] st = "embedded" -> "frames"
      [] OTHER -> "deferred"

\* after the last job of the admission loop comes the deferred_new loop
AfterAdmit(i) == IF i >= Len(jobs) THEN <<"defer", 1>> ELSE <<"admit", i + 1>>

\* variant: the checkpoint is loaded before the archive is looked for
AdmitSkipAfterLoad ==
    /\ opc = "admit"
    /\ rtt[Vid(oidx)] # "none"
    /\ loaded' = loaded \cup {oidx}
    /\ results' = Append(results, Vid(oidx))
    /\ skipped' = skipped + 1
    /\ wpc' = [wpc EXCEPT ![oidx] = "skipped"]
    /\ admitted' = [admitted EXCEPT ![oidx] = "skip"]
    /\ opc' = AfterAdmit(oidx)[1]
    /\ oidx' = AfterAdmit(oidx)[2]
    /\ UNCHANGED <<disk, faillog, args, run, log_base, crashed, aside, woken, deferred_new, queue,
                   unfinished, held, jstatus, done_count, called, last_failed>>

\* batch.py:298-304: the archive exists, the job is recorded as skipped
AdmitSkip ==
    /\ opc = "admit"
    /\ rtt[Vid(oidx)] # "none"
    /\ results' = Append(results, Vid(oidx))
    /\ skipped' = skipped + 1
    /\ wpc' = [wpc EXCEPT ![oidx] = "skipped"]
    /\ admitted' = [admitted EXCEPT ![oidx] = "skip"]
    /\ opc' = AfterAdmit(oidx)[1]
    /\ oidx' = AfterAdmit(oidx)[2]
    /\ UNCHANGED <<disk, faillog, args, run, log_base, crashed, aside, woken, deferred_new, queue,
                   unfinished, held, jstatus, done_count, called, loaded, last_failed>>

\* variant: a new job goes on the Transcribe queue as soon as it is met
AdmitDeferNow ==
    /\ opc = "admit"
    /\ rtt[Vid(oidx)] = "none"
    /\ Parses(Vid(oidx))
    /\ Hydrates(Vid(oidx))
    /\ AdmitQueue(LoadStatus(Vid(oidx))) = "deferred"
    /\ loaded' = loaded \cup {oidx}
    /\ queue' = Put(queue, "transcribe", oidx)
    /\ unfinished' = PutCount(unfinished, "transcribe")
    /\ wpc' = [wpc EXCEPT ![oidx] = "queued"]
    /\ admitted' = [admitted EXCEPT ![oidx] = "transcribe"]
    /\ opc' = AfterAdmit(oidx)[1]
    /\ oidx' = AfterAdmit(oidx)[2]
    /\ UNCHANGED <<disk, faillog, args, run, log_base, crashed, aside, woken, deferred_new,
                   held, jstatus, results, done_count, skipped, called, last_failed>>

\* batch.py:305-307 and 332-333: status new, absent or unknown: deferred
AdmitDefer ==
    /\ opc = "admit"
    /\ rtt[Vid(oidx)] = "none"
    /\ Parses(Vid(oidx))
    /\ Hydrates(Vid(oidx))
    /\ AdmitQueue(LoadStatus(Vid(oidx))) = "deferred"
    /\ loaded' = loaded \cup {oidx}
    /\ deferred_new' = Append(deferred_new, oidx)
    /\ opc' = AfterAdmit(oidx)[1]
    /\ oidx' = AfterAdmit(oidx)[2]
    /\ UNCHANGED <<disk, faillog, args, run, log_base, crashed, aside, woken, queue, unfinished,
                   held, wpc, jstatus, results, done_count, skipped, called,
                   admitted, last_failed>>

\* batch.py:308-331: a resumed job is hydrated and put on its stage's queue
AdmitResume ==
    /\ opc = "admit"
    /\ rtt[Vid(oidx)] = "none"
    /\ Parses(Vid(oidx))
    /\ Hydrates(Vid(oidx))
    /\ AdmitQueue(LoadStatus(Vid(oidx))) # "deferred"
    /\ LET s == AdmitQueue(LoadStatus(Vid(oidx))) IN
        /\ loaded' = loaded \cup {oidx}
        /\ jstatus' = [jstatus EXCEPT ![oidx] = LoadStatus(Vid(oidx))]
        /\ queue' = Put(queue, s, oidx)
        /\ unfinished' = PutCount(unfinished, s)
        /\ wpc' = [wpc EXCEPT ![oidx] = "queued"]
        /\ admitted' = [admitted EXCEPT ![oidx] = s]
    /\ opc' = AfterAdmit(oidx)[1]
    /\ oidx' = AfterAdmit(oidx)[2]
    /\ UNCHANGED <<disk, faillog, args, run, log_base, crashed, aside, woken, deferred_new, held,
                   results, done_count, skipped, called, last_failed>>

\* batch.py:335-338: a deferred job gets a fresh _Job and goes to Transcribe
EnqueueDeferred ==
    /\ opc = "defer"
    /\ oidx <= Len(deferred_new)
    /\ LET j == deferred_new[oidx] IN
        /\ jstatus' = [jstatus EXCEPT ![j] = "none"]
        /\ queue' = Put(queue, "transcribe", j)
        /\ unfinished' = PutCount(unfinished, "transcribe")
        /\ wpc' = [wpc EXCEPT ![j] = "queued"]
        /\ admitted' = [admitted EXCEPT ![j] = "transcribe"]
    /\ oidx' = oidx + 1
    /\ UNCHANGED <<disk, faillog, args, run, log_base, crashed, aside, opc, woken, deferred_new,
                   held, results, done_count, skipped, called, loaded, last_failed>>

\* ------------------------------------------------ orchestrator: join, cancel

\* batch.py:340-346 from join number k on: the joins that find nothing
\* unfinished return without suspending; past the last one the workers are
\* cancelled and process_batch returns.
JoinFrom(k) ==
    LET w == FirstWait(k, unfinished) IN
    /\ opc' = IF w > Len(JoinOrder) THEN "done" ELSE "join"
    /\ oidx' = w
    /\ woken' = FALSE

\* the orchestrator reaches await q_transcribe.join()
JoinEnter ==
    /\ opc = "defer"
    /\ oidx > Len(deferred_new)
    /\ JoinFrom(1)
    /\ UNCHANGED <<disk, faillog, args, run, log_base, crashed, aside, deferred_new, queue,
                   unfinished, held, wpc, jstatus, results, done_count, skipped,
                   hist>>

\* the awaited join() returns
JoinWake ==
    /\ opc = "join"
    /\ woken
    /\ JoinFrom(oidx + 1)
    /\ UNCHANGED <<disk, faillog, args, run, log_base, crashed, aside, deferred_new, queue,
                   unfinished, held, wpc, jstatus, results, done_count, skipped,
                   hist>>

\* process_batch is run again on the same output directory, same job list
Restart ==
    /\ opc = "done"
    /\ run < MaxRuns
    /\ run' = run + 1
    /\ log_base' = Len(faillog)
    /\ skip_enrich' \in BOOLEAN
    /\ opc' = "admit"
    /\ oidx' = 1
    /\ woken' = FALSE
    /\ deferred_new' = <<>>
    /\ queue' = [s \in StageSet |-> <<>>]
    /\ unfinished' = [s \in StageSet |-> 0]
    /\ held' = [s \in StageSet |-> {}]
    /\ wpc' = [j \in JobIdx |-> "none"]
    /\ jstatus' = [j \in JobIdx |-> "none"]
    /\ results' = <<>>
    /\ done_count' = 0
    /\ skipped' = 0
    /\ called' = [j \in JobIdx |-> {}]
    /\ loaded' = {}
    /\ admitted' = [j \in JobIdx |-> "none"]
    /\ last_failed' = [j \in JobIdx |-> IF wpc[j] = "failed" THEN jstatus[j] ELSE "-"]
    /\ crashed' = FALSE
    /\ UNCHANGED <<disk, faillog, jobs, pool, aside>>

\* ------------------------------------------------------- workers: fragments

\* what no worker changes
wfix == <<args, run, log_base, crashed, aside, opc, oidx, deferred_new, skipped, loaded, admitted,
          last_failed>>

\* _save_status(output_dir, vid, j.status)
SaveStatus(c, v, st) == [c EXCEPT ![v] = st]

\* variant: _cleanup leaves the frames directory
CleanupFramesKept(f, v) == f

\* _cleanup(output_dir, vid): the checkpoint and the frames directory go
CleanupFrames(f, v) == [f EXCEPT ![v] = FALSE]
CleanupStatus(c, v) == [c EXCEPT ![v] = "absent"]

\* path.unlink(missing_ok=True)
Unlink(f, v) == [f EXCEPT ![v] = FALSE]

\* j = await q.get() up to the first await of the stage: the worker holds j
Take(s, j, at) ==
    /\ queue' = [queue EXCEPT ![s] = Tail(@)]
    /\ held' = [held EXCEPT ![s] = @ \cup {j}]
    /\ wpc' = [wpc EXCEPT ![j] = at]

\* variant: a stage takes the head of its queue whatever its workers hold
CanTakeUnbounded(s) ==
    /\ opc = "join"
    /\ queue[s] # <<>>

\* a worker of stage s is free to take the head of its queue
CanTake(s) ==
    /\ opc = "join"
    /\ queue[s] # <<>>
    /\ Cardinality(held[s]) < pool[s]

\* the worker of stage s is suspended at await `at` with job j
At(s, j, at) == opc = "join" /\ j \in held[s] /\ wpc[j] = at

\* variant: task_done is left out
TaskDoneMissing(s, u) ==
    /\ unfinished' = u
    /\ woken' = woken

\* q.task_done() of stage s, after the puts counted in u
TaskDone(s, u) ==
    /\ unfinished' = TaskDoneCount(u, s)
    /\ woken' = (woken \/ Wakes(TaskDoneCount(u, s), s))

\* variant: the except branch swallows the exception without a log line
FailJobSilent(s, j) ==
    /\ faillog' = faillog
    /\ held' = [held EXCEPT ![s] = @ \ {j}]
    /\ wpc' = [wpc EXCEPT ![j] = "failed"]
    /\ TaskDone(s, unfinished)
    /\ UNCHANGED <<queue, jstatus, results, done_count>>

\* variant: the failures log is opened with "w", not "a"
FailJobOverwrite(s, j) ==
    /\ faillog' = <<j>>
    /\ held' = [held EXCEPT ![s] = @ \ {j}]
    /\ wpc' = [wpc EXCEPT ![j] = "failed"]
    /\ TaskDone(s, unfinished)
    /\ UNCHANGED <<queue, jstatus, results, done_count>>

\* the except branch (and the empty-transcript branches): one line in the
\* failures log, no put, task_done
FailJob(s, j) ==
    /\ faillog' = Append(faillog, j)
    /\ held' = [held EXCEPT ![s] = @ \ {j}]
    /\ wpc' = [wpc EXCEPT ![j] = "failed"]
    /\ TaskDone(s, unfinished)
    /\ UNCHANGED <<queue, jstatus, results, done_count>>

\* variant: the job is put on the next queue while the worker still holds it
PassJobEarly(s, t, j, st) ==
    /\ jstatus' = [jstatus EXCEPT ![j] = st]
    /\ ckpt' = SaveStatus(ckpt, Vid(j), st)
    /\ queue' = Put(queue, t, j)
    /\ held' = held
    /\ wpc' = wpc
    /\ unfinished' = PutCount(unfinished, t)
    /\ woken' = woken
    /\ UNCHANGED <<faillog, results, done_count>>

\* the end of a successful stage: the status is saved, the job is put on the
\* next queue, task_done
PassJob(s, t, j, st) ==
    /\ jstatus' = [jstatus EXCEPT ![j] = st]
    /\ ckpt' = SaveStatus(ckpt, Vid(j), st)
    /\ queue' = Put(queue, t, j)
    /\ held' = [held EXCEPT ![s] = @ \ {j}]
    /\ wpc' = [wpc EXCEPT ![j] = "queued"]
    /\ TaskDone(s, PutCount(unfinished, t))
    /\ UNCHANGED <<faillog, results, done_count>>

Call(j, svc) == called' = [called EXCEPT ![j] = @ \cup {svc}]

\* ------------------------------------------------------- transcribe_worker

\* batch.py:104-111 / 104-133: a platform job first asks for the subtitle
\* track, any other job goes to ASR with its source_url
TranscribeGet ==
    /\ CanTake("transcribe")
    /\ LET j == Head(q_transcribe) IN
        IF IsYoutube(j)
        THEN Take("transcribe", j, "t_subs") /\ Call(j, "subs")
        ELSE Take("transcribe", j, "t_asr") /\ Call(j, "asr")
    /\ UNCHANGED <<disk, faillog, unfinished, woken, jstatus, results, done_count, wfix>>

\* batch.py:111-125 and 144-164: yt_transcriber.transcribe returned
SubtitlesReturn(j) ==
    /\ At("transcribe", j, "t_subs")
    /\ \/ \* segments that survive normalization: transcribed from subtitles
          /\ PassJob("transcribe", "enrich", j, "transcribed")
          /\ UNCHANGED <<rtt, audio, video, framesdir, called, wfix>>
       \/ \* no subtitles, or none left: the audio is downloaded
          /\ wpc' = [wpc EXCEPT ![j] = "t_dl"]
          /\ Call(j, "dl_audio")
          /\ UNCHANGED <<disk, faillog, queue, unfinished, woken, held, jstatus,
                         results, done_count, wfix>>
       \/ \* the call raised
          /\ FailJob("transcribe", j)
          /\ UNCHANGED <<disk, called, wfix>>

\* batch.py:122-133: download_audio returned; the file is renamed to
\* {vid}.audio and ASR is called on it
AudioReturn(j) ==
    /\ At("transcribe", j, "t_dl")
    /\ \/ /\ audio' = [audio EXCEPT ![Vid(j)] = TRUE]
          /\ wpc' = [wpc EXCEPT ![j] = "t_asr"]
          /\ Call(j, "asr")
          /\ UNCHANGED <<rtt, ckpt, video, framesdir, faillog, queue, unfinished,
                         woken, held, jstatus, results, done_count, wfix>>
       \/ /\ FailJob("transcribe", j)
          /\ UNCHANGED <<disk, called, wfix>>

\* batch.py:131-164: aai_transcriber.transcribe_url returned
AsrReturn(j) ==
    /\ At("transcribe", j, "t_asr")
    /\ \/ \* segments: {vid}.audio is unlinked, the job is transcribed
          /\ audio' = Unlink(audio, Vid(j))
          /\ PassJob("transcribe", "enrich", j, "transcribed")
          /\ UNCHANGED <<rtt, video, framesdir, called, wfix>>
       \/ \* no segments, or none after normalization: a failure
          /\ audio' = Unlink(audio, Vid(j))
          /\ FailJob("transcribe", j)
          /\ UNCHANGED <<rtt, ckpt, video, framesdir, called, wfix>>
       \/ \* the call raised: the except branch
          /\ FailJob("transcribe", j)
          /\ UNCHANGED <<disk, called, wfix>>

\* ----------------------------------------------------------- enrich_worker

\* batch.py:169-194 with skip_enrich (or a status other than transcribed):
\* no await between get and task_done, the job goes straight to Embed
EnrichSkip ==
    /\ CanTake("enrich")
    /\ LET j == Head(q_enrich) IN
        /\ skip_enrich \/ jstatus[j] # "transcribed"
        /\ queue' = Put([queue EXCEPT !["enrich"] = Tail(@)], "embed", j)
        /\ TaskDone("enrich", PutCount(unfinished, "embed"))
    /\ UNCHANGED <<disk, faillog, held, wpc, jstatus, results, done_count, called, wfix>>

\* batch.py:169-182: the enricher is called
EnrichGet ==
    /\ CanTake("enrich")
    /\ LET j == Head(q_enrich) IN
        /\ ~skip_enrich /\ jstatus[j] = "transcribed"
        /\ Take("enrich", j, "e_call")
        /\ Call(j, "enrich")
    /\ UNCHANGED <<disk, faillog, unfinished, woken, jstatus, results, done_count, wfix>>

\* batch.py:180-194: enricher.enrich returned
EnrichReturn(j) ==
    /\ At("enrich", j, "e_call")
    /\ \/ /\ PassJob("enrich", "embed", j, "enriched")
          /\ UNCHANGED <<rtt, audio, video, framesdir, called, wfix>>
       \/ /\ FailJob("enrich", j)
          /\ UNCHANGED <<disk, called, wfix>>

\* ------------------------------------------------------------ embed_worker

\* batch.py:199-206
EmbedGet ==
    /\ CanTake("embed")
    /\ LET j == Head(q_embed) IN
        /\ Take("embed", j, "m_call")
        /\ Call(j, "embed")
    /\ UNCHANGED <<disk, faillog, unfinished, woken, jstatus, results, done_count, wfix>>

\* batch.py:206-218: embedder.embed_batch returned
EmbedReturn(j) ==
    /\ At("embed", j, "m_call")
    /\ \/ /\ PassJob("embed", "frames", j, "embedded")
          /\ UNCHANGED <<rtt, audio, video, framesdir, called, wfix>>
       \/ /\ FailJob("embed", j)
          /\ UNCHANGED <<disk, called, wfix>>

\* ----------------------------------------------------------- frames_worker

\* batch.py:224-248: the frames directory is made; a platform job downloads
\* the video, any other job extracts from its URL
FramesGet ==
    /\ CanTake("frames")
    /\ LET j == Head(q_frames) IN
        /\ framesdir' = [framesdir EXCEPT ![Vid(j)] = TRUE]
        /\ IF IsYoutube(j)
           THEN Take("frames", j, "f_dl") /\ Call(j, "dl_video")
           ELSE Take("frames", j, "f_remote") /\ Call(j, "extract_remote")
    /\ UNCHANGED <<rtt, ckpt, audio, video, faillog, unfinished, woken, jstatus,
                   results, done_count, wfix>>

\* batch.py:269-273: the except branch of frames_worker
FramesFail(j) ==
    /\ FailJob("frames", j)
    /\ video' = Unlink(video, Vid(j))

\* batch.py:236-242: download_video returned; the file is renamed to
\* {vid}.video and frames.extract is called on it
VideoReturn(j) ==
    /\ At("frames", j, "f_dl")
    /\ \/ /\ video' = [video EXCEPT ![Vid(j)] = TRUE]
          /\ wpc' = [wpc EXCEPT ![j] = "f_extract"]
          /\ Call(j, "extract")
          /\ UNCHANGED <<rtt, ckpt, audio, framesdir, faillog, queue, unfinished,
                         woken, held, jstatus, results, done_count, wfix>>
       \/ /\ FramesFail(j)
          /\ UNCHANGED <<rtt, ckpt, audio, framesdir, called, wfix>>

\* variant: the archive is written and its path is not returned
PackageUnlisted(j) ==
    \/ /\ rtt' = [rtt EXCEPT ![Vid(j)] = "ok"]
       /\ ckpt' = CleanupStatus(ckpt, Vid(j))
       /\ framesdir' = CleanupFrames(framesdir, Vid(j))
       /\ video' = Unlink(video, Vid(j))
       /\ done_count' = done_count + 1
       /\ held' = [held EXCEPT !["frames"] = @ \ {j}]
       /\ wpc' = [wpc EXCEPT ![j] = "packaged"]
       /\ TaskDone("frames", unfinished)
       /\ UNCHANGED <<audio, faillog, queue, jstatus, results, called, wfix>>
    \/ /\ FramesFail(j)
       /\ UNCHANGED <<rtt, ckpt, audio, framesdir, called, wfix>>
    \/ /\ FramesFail(j)
       /\ rtt' = [rtt EXCEPT ![Vid(j)] = "partial"]
       /\ UNCHANGED <<ckpt, audio, framesdir, called, wfix>>

\* batch.py:249-273 and package.py:11-59: the frames are attached and the
\* archive is written.  package.create may raise before it opens the archive
\* file (the file is as it was) or inside the ZipFile block (the file exists,
\* incomplete); when it returns, _cleanup runs and the job is counted.
Package(j) ==
    \/ /\ rtt' = [rtt EXCEPT ![Vid(j)] = "ok"]
       /\ ckpt' = CleanupStatus(ckpt, Vid(j))
       /\ framesdir' = CleanupFrames(framesdir, Vid(j))
       /\ video' = Unlink(video, Vid(j))
       /\ done_count' = done_count + 1
       /\ results' = Append(results, Vid(j))
       /\ held' = [held EXCEPT !["frames"] = @ \ {j}]
       /\ wpc' = [wpc EXCEPT ![j] = "packaged"]
       /\ TaskDone("frames", unfinished)
       /\ UNCHANGED <<audio, faillog, queue, jstatus, called, wfix>>
    \/ /\ FramesFail(j)
       /\ UNCHANGED <<rtt, ckpt, audio, framesdir, called, wfix>>
    \/ /\ FramesFail(j)
       /\ rtt' = [rtt EXCEPT ![Vid(j)] = "partial"]
       /\ UNCHANGED <<ckpt, audio, framesdir, called, wfix>>

\* batch.py:240-273: frames.extract returned
ExtractReturn(j) ==
    /\ At("frames", j, "f_extract")
    /\ \/ Package(j)
       \/ /\ FramesFail(j)
          /\ UNCHANGED <<rtt, ckpt, audio, framesdir, called, wfix>>

\* batch.py:246-273: frames.extract_remote returned
RemoteReturn(j) ==
    /\ At("frames", j, "f_remote")
    /\ \/ Package(j)
       \/ /\ FramesFail(j)
          /\ UNCHANGED <<rtt, ckpt, audio, framesdir, called, wfix>>

\* ------------------------------------------------------------ specification

Orchestrator ==
    \/ AdmitSkip
    \/ AdmitDefer
    \/ AdmitResume
    \/ EnqueueDeferred
    \/ JoinEnter
    \/ JoinWake

Workers ==
    \/ TranscribeGet
    \/ EnrichSkip
    \/ EnrichGet
    \/ EmbedGet
    \/ FramesGet
    \/ \E j \in JobIdx :
        \/ SubtitlesReturn(j)
        \/ AudioReturn(j)
        \/ AsrReturn(j)
        \/ EnrichReturn(j)
        \/ EmbedReturn(j)
        \/ VideoReturn(j)
        \/ ExtractReturn(j)
        \/ RemoteReturn(j)

Next == Orchestrator \/ Workers \/ Restart

Spec == Init /\ [][Next]_vars

\* ------------------------------------------------------ crash and re-run

\* batch.py:305 with 36-40: json.loads raises on a checkpoint that is not
\* complete JSON; nothing catches it and process_batch raises
AdmitRaise ==
    /\ opc = "admit"
    /\ rtt[Vid(oidx)] = "none"
    /\ ~Parses(Vid(oidx))
    /\ loaded' = loaded \cup {oidx}
    /\ opc' = "raised"
    /\ UNCHANGED <<disk, faillog, args, run, log_base, crashed, aside, oidx, woken,
                   deferred_new, queue, unfinished, held, wpc, jstatus, results,
                   done_count, skipped, called, admitted, last_failed>>

\* the awaits from which job j's worker goes on to _save_status
\* (batch.py:157, 187, 211)
SavesNext(j) == wpc[j] \in {"t_subs", "t_asr", "e_call", "m_call"}

\* the awaits from which job j's worker goes on to package.create
\* (batch.py:263)
PackagesNext(j) == wpc[j] \in {"f_extract", "f_remote"}

\* What a kill of the process leaves in the output directory: the files as
\* they are between two steps; or a checkpoint cut short in the write_text
\* of _save_status (batch.py:43-44 opens the file itself for writing); or an
\* archive cut short inside the ZipFile block of package.create
\* (package.py:48-57); or a complete archive whose _cleanup (batch.py:264)
\* did not run.
CrashDisk ==
    \/ UNCHANGED disk
    \/ \E j \in JobIdx :
        /\ SavesNext(j)
        /\ ckpt' = [ckpt EXCEPT ![Vid(j)] = "corrupt"]
        /\ UNCHANGED <<rtt, audio, video, framesdir>>
    \/ \E j \in JobIdx :
        /\ PackagesNext(j)
        /\ rtt' \in {[rtt EXCEPT ![Vid(j)] = "partial"], [rtt EXCEPT ![Vid(j)] = "ok"]}
        /\ video' = Unlink(video, Vid(j))
        /\ UNCHANGED <<ckpt, audio, framesdir>>

\* the process is killed while process_batch runs, and the batch is run
\* again with the same arguments on the same output directory
Crash ==
    /\ opc \in {"admit", "defer", "join"}
    /\ run < MaxRuns
    /\ CrashDisk
    /\ run' = run + 1
    /\ crashed' = TRUE
    /\ log_base' = Len(faillog)
    /\ opc' = "admit"
    /\ oidx' = 1
    /\ woken' = FALSE
    /\ deferred_new' = <<>>
    /\ queue' = [s \in StageSet |-> <<>>]
    /\ unfinished' = [s \in StageSet |-> 0]
    /\ held' = [s \in StageSet |-> {}]
    /\ wpc' = [j \in JobIdx |-> "none"]
    /\ jstatus' = [j \in JobIdx |-> "none"]
    /\ results' = <<>>
    /\ done_count' = 0
    /\ skipped' = 0
    /\ called' = [j \in JobIdx |-> {}]
    /\ loaded' = {}
    /\ admitted' = [j \in JobIdx |-> "none"]
    /\ last_failed' = [j \in JobIdx |-> "-"]
    /\ UNCHANGED <<faillog, args, aside>>

CrashNext == Next \/ AdmitRaise \/ Crash

CrashSpec == Init /\ [][CrashNext]_vars


\* ============================================================== the claims

\* what the claims count and compare

SeqCount(q, j) == Cardinality({i \in DOMAIN q : q[i] = j})
Last(q) == q[Len(q)]

\* the number of places job j is in: entries of the four queues plus the
\* stages whose workers hold it
Places(j) ==
    LET n(s) == SeqCount(queue[s], j) + (IF j \in held[s] THEN 1 ELSE 0) IN
    n("transcribe") + n("enrich") + n("embed") + n("frames")

\* the stage (1..4) job j is queued for or held in, 0 when it is in none
StageOf(j) ==
    IF \E k \in 1..Len(Stages) : SeqCount(queue[Stages[k]], j) > 0 \/ j \in held[Stages[k]]
    THEN CHOOSE k \in 1..Len(Stages) : SeqCount(queue[Stages[k]], j) > 0 \/ j \in held[Stages[k]]
    ELSE 0

UniqueId(j) == \A i \in JobIdx : Vid(i) = Vid(j) => i = j

\* the step is one of process_batch's workers, not admission or a new run
WorkerStep == opc = "join" /\ opc' = "join" /\ run' = run

\* ----------------------------------------------------------------------- C1

\* a worker puts job j on the queue of stage k (k > 1) only when j was in
\* stage k-1 (held by its worker, or at the head of its queue for the
\* enrich pass-through), and with that put stage k-1 is finished with j
C1_PutAfterPrevious ==
    \A j \in JobIdx : \A k \in 2..Len(Stages) :
        (WorkerStep /\ SeqCount(queue'[Stages[k]], j) > SeqCount(queue[Stages[k]], j))
        => /\ StageOf(j) = k - 1
           /\ j \in held[Stages[k - 1]] \/ Head(queue[Stages[k - 1]]) = j
           /\ j \notin held'[Stages[k - 1]]
           /\ SeqCount(queue'[Stages[k - 1]], j) = 0

\* within a run a job stays in its stage or moves to the next one, never back
C1_Forward ==
    \A j \in JobIdx :
        (run' = run /\ StageOf(j) > 0 /\ StageOf(j)' > 0)
        => StageOf(j)' \in {StageOf(j), StageOf(j) + 1}

\* a job whose video_id no other job of the list has is in at most one place
C1_OnePlace == \A j \in JobIdx : UniqueId(j) => Places(j) <= 1

\* C1: every job passes the stages in the order Transcribe, Enrich, Embed,
\* Frames+Package; it is put on a stage's queue only after the previous
\* stage's worker has finished with it; a job with a video_id unique in the
\* input is in at most one queue or held by at most one worker at any moment.
C1_StageOrder ==
    /\ []C1_OnePlace
    /\ [][C1_PutAfterPrevious /\ C1_Forward]_vars

\* a job with a unique id, admitted to Transcribe, has reached the Frames
\* queue while the other job is still held by a transcribe worker
C1_Witness ==
    \E j \in JobIdx :
        /\ UniqueId(j)
        /\ admitted[j] = "transcribe"
        /\ SeqCount(q_frames, j) = 1
        /\ \E i \in JobIdx : i # j /\ i \in held["transcribe"]

\* ----------------------------------------------------------------------- C2

\* the order of the persisted statuses; no file counts as new
Rank(st) ==
    CASE st = "transcribed" -> 1
      [] st = "enriched" -> 2
      [] st = "embedded" -> 3
      [] OTHER -> 0

\* the step packages video v: its archive is written and counted
Packaged(v) ==
    /\ WorkerStep
    /\ Len(results') = Len(results) + 1
    /\ Last(results') = v

\* a changed checkpoint either holds a later status than before or is
\* deleted by the step that packages the video
C2_Step ==
    \A v \in VideoIds :
        ckpt'[v] # ckpt[v] =>
            \/ Rank(ckpt'[v]) > Rank(ckpt[v])
            \/ ckpt'[v] = "absent" /\ Packaged(v)

\* admission hands a job either to the stage after its persisted status or,
\* with no status persisted, to deferred_new
C2_Resume ==
    (opc = "admit" /\ rtt[Vid(oidx)] = "none") =>
        LET r == Rank(ckpt[Vid(oidx)]) IN
        IF r = 0 THEN deferred_new' = Append(deferred_new, oidx)
        ELSE queue' = [queue EXCEPT ![Stages[r + 1]] = Append(@, oidx)]

\* C2: the status persisted in a checkpoint file only moves forward (new,
\* transcribed, enriched, embedded, then deleted at packaging) over any
\* sequence of runs, failures and resumes, and a restart resumes from it.
C2_StatusForward == [][C2_Step /\ C2_Resume]_vars

\* the forward step for the video_ids that one job of the list has
C2_StepUnique ==
    \A j \in JobIdx :
        (UniqueId(j) /\ ckpt'[Vid(j)] # ckpt[Vid(j)]) =>
            \/ Rank(ckpt'[Vid(j)]) > Rank(ckpt[Vid(j)])
            \/ ckpt'[Vid(j)] = "absent" /\ Packaged(Vid(j))

\* the status only moves forward for a video_id that is unique in the list
C2_StatusForwardUnique == [][C2_StepUnique /\ C2_Resume]_vars

\* ----------------------------------------------------------------------- C3

\* the admission step of job oidx, whose archive does not exist: by the
\* status its checkpoint holds, the job goes on the queue the claim names
C3_AdmitStep ==
    (opc = "admit" /\ rtt[Vid(oidx)] = "none") =>
        LET st == ckpt[Vid(oidx)] IN
        /\ st = "transcribed" =>
              /\ queue' = [queue EXCEPT !["enrich"] = Append(@, oidx)]
              /\ jstatus'[oidx] = "transcribed"
        /\ st = "enriched" =>
              /\ queue' = [queue EXCEPT !["embed"] = Append(@, oidx)]
              /\ jstatus'[oidx] = "enriched"
        /\ st = "embedded" =>
              /\ queue' = [queue EXCEPT !["frames"] = Append(@, oidx)]
              /\ jstatus'[oidx] = "embedded"
        /\ st = "absent" =>
              /\ queue' = queue
              /\ deferred_new' = Append(deferred_new, oidx)

\* every deferred job is put on the Transcribe queue
C3_DeferStep ==
    (opc = "defer" /\ oidx <= Len(deferred_new)) =>
        queue' = [queue EXCEPT !["transcribe"] = Append(@, deferred_new[oidx])]

\* the services of the stages a resumed job has behind it are not called
Before(s) ==
    CASE s = "enrich" -> {"subs", "dl_audio", "asr"}
      [] s = "embed" -> {"subs", "dl_audio", "asr", "enrich"}
      [] s = "frames" -> {"subs", "dl_audio", "asr", "enrich", "embed"}
      [] OTHER -> {}

\* no job has called a service of a stage before the one it was admitted to
C3_NoRepeat == \A j \in JobIdx : called[j] \cap Before(admitted[j]) = {}

\* C3: admission puts a job with checkpoint status transcribed on Enrich,
\* enriched on Embed, embedded on Frames+Package, new or absent on
\* Transcribe; a resumed job never calls the service of a stage at or before
\* its persisted status.
C3_AdmissionResumes ==
    /\ []C3_NoRepeat
    /\ [][C3_AdmitStep /\ C3_DeferStep]_vars

\* a job resumed from an enriched checkpoint has been packaged, having
\* called the embedder and nothing of the stages before it
C3_Witness ==
    \E j \in JobIdx :
        /\ admitted[j] = "embed"
        /\ wpc[j] = "packaged"
        /\ "embed" \in called[j]

\* ----------------------------------------------------------------------- C4

\* the admission step of a job whose archive exists records it as skipped
\* and touches nothing else
C4_SkipStep ==
    (opc = "admit" /\ rtt[Vid(oidx)] # "none") =>
        /\ results' = Append(results, Vid(oidx))
        /\ skipped' = skipped + 1
        /\ admitted'[oidx] = "skip"
        /\ queue' = queue
        /\ deferred_new' = deferred_new
        /\ unfinished' = unfinished
        /\ loaded' = loaded
        /\ called' = called
        /\ UNCHANGED disk

\* for the rest of the run a skipped job is on no queue and with no worker,
\* no service was called for it and its checkpoint was not read
C4_NoWork ==
    \A j \in JobIdx :
        admitted[j] = "skip" =>
            /\ Places(j) = 0
            /\ called[j] = {}
            /\ j \notin loaded
            /\ j \notin {deferred_new[i] : i \in DOMAIN deferred_new}

\* for the rest of the run its archive and its checkpoint stay as they are
C4_Untouched ==
    \A j \in JobIdx :
        (admitted[j] = "skip" /\ run' = run) =>
            /\ rtt'[Vid(j)] = rtt[Vid(j)]
            /\ ckpt'[Vid(j)] = ckpt[Vid(j)]

\* C4: a job whose archive {video_id}.rtt exists is recorded as skipped and
\* does no work: no queue, no external service, its checkpoint neither read
\* nor written, the archive file unchanged.
C4_SkipExisting ==
    /\ []C4_NoWork
    /\ [][C4_SkipStep /\ C4_Untouched]_vars

\* a run has ended in which one job was skipped while the other was
\* processed by the workers
C4_Witness ==
    /\ opc = "done"
    /\ \E j \in JobIdx : admitted[j] = "skip" /\ Vid(j) \in {results[i] : i \in DOMAIN results}
    /\ \E i \in JobIdx : admitted[i] \notin {"skip", "none"}

\* ----------------------------------------------------------------------- C5

\* the lines this run has appended to the failures log
NewLines == SubSeq(faillog, log_base + 1, Len(faillog))

\* a job that failed has exactly one line of this run, any other job none
C5_OneLine ==
    \A j \in JobIdx :
        SeqCount(NewLines, j) = IF wpc[j] = "failed" THEN 1 ELSE 0

\* a failed job is on no queue and with no worker
C5_Dropped == \A j \in JobIdx : wpc[j] = "failed" => Places(j) = 0

\* every item taken from a queue and no longer held was marked done: the
\* queue's count of unfinished items is its items plus the held jobs
C5_MarkedDone ==
    \A s \in StageSet : unfinished[s] = Len(queue[s]) + Cardinality(held[s])

\* when process_batch returns, every job was skipped, or is packaged, or
\* has failed
C5_OthersFinish ==
    opc = "done" => \A j \in JobIdx : wpc[j] \in {"skipped", "packaged", "failed"}

\* C5: when a worker's processing of a job raises, exactly one line for the
\* job is appended to the failures log, the job is put on no further queue,
\* the worker marks the item done and takes the next item, and every other
\* job still reaches its archive or its own failure record.
C5_FailureIsolated ==
    /\ C5_OneLine
    /\ C5_Dropped
    /\ C5_MarkedDone
    /\ C5_OthersFinish

\* a one-worker pool: the first job failed in Embed and the worker went on
\* to the second job, which has been packaged
C5_Witness ==
    /\ opc = "done"
    /\ pool["embed"] = 1
    /\ \E j, i \in JobIdx :
        /\ wpc[j] = "failed"
        /\ "embed" \in called[j]
        /\ jstatus[j] # "embedded"
        /\ wpc[i] = "packaged"
        /\ "embed" \in called[i]
        /\ results = <<Vid(i)>>
        /\ NewLines = <<j>>

\* ----------------------------------------------------------------------- C6

\* the step logs the failure of job j
Fails(j) == WorkerStep /\ wpc[j] # "failed" /\ wpc'[j] = "failed"

\* the checkpoint a _Job's status says was last saved: none for a job that
\* has not completed Transcribe
Persisted(st) == IF st = "none" THEN "absent" ELSE st

\* the failure leaves the checkpoint file as it is
C6_FailureKeeps ==
    \A j \in JobIdx : Fails(j) => ckpt'[Vid(j)] = ckpt[Vid(j)]

\* after the failure the file records the last stage the job completed
C6_FileRecords ==
    \A j \in JobIdx : Fails(j) => ckpt'[Vid(j)] = Persisted(jstatus[j])

\* the next run admits a job that failed to the stage after the last one it
\* completed
C6_NextRunAdmits ==
    (opc = "admit" /\ last_failed[oidx] # "-") =>
        LET r == Rank(last_failed[oidx]) IN
        IF r = 0 THEN deferred_new' = Append(deferred_new, oidx)
        ELSE queue' = [queue EXCEPT ![Stages[r + 1]] = Append(@, oidx)]

\* C6: a failure of a job in any stage never deletes its checkpoint file;
\* after the failure the file still records the last stage that completed
\* for the job, and a later run of process_batch admits the job at the stage
\* that follows it.
C6_ResumeAfterFailure == [][C6_FailureKeeps /\ C6_FileRecords /\ C6_NextRunAdmits]_vars

\* the part of C6 that is about the failing step alone
C6_KeepsOnly == [][C6_FailureKeeps]_vars

\* C6 for the jobs whose video_id is unique in the list and whose failure
\* left no archive file behind
C6_NextRunAdmitsClean ==
    (opc = "admit" /\ last_failed[oidx] # "-" /\ UniqueId(oidx) /\ rtt[Vid(oidx)] = "none") =>
        LET r == Rank(last_failed[oidx]) IN
        IF r = 0 THEN deferred_new' = Append(deferred_new, oidx)
        ELSE queue' = [queue EXCEPT ![Stages[r + 1]] = Append(@, oidx)]

\* the file records the last completed stage, for a unique video_id
C6_FileRecordsUnique ==
    \A j \in JobIdx : (Fails(j) /\ UniqueId(j)) => ckpt'[Vid(j)] = Persisted(jstatus[j])

\* resume after a failure that left no archive file, unique video_ids
C6_ResumeAfterFailureClean ==
    [][C6_FailureKeeps /\ C6_FileRecordsUnique /\ C6_NextRunAdmitsClean]_vars

\* the next run's admission of a failed job whose video_id is unique
C6_NextRunAdmitsUnique ==
    (opc = "admit" /\ last_failed[oidx] # "-" /\ UniqueId(oidx)) =>
        LET r == Rank(last_failed[oidx]) IN
        IF r = 0 THEN deferred_new' = Append(deferred_new, oidx)
        ELSE queue' = [queue EXCEPT ![Stages[r + 1]] = Append(@, oidx)]

\* C6, for the jobs whose video_id no other job of the list has: a failure
\* never deletes the checkpoint, the file records the last completed stage,
\* and the next run admits the job at the stage that follows it.
C6_ResumeAfterFailureUnique ==
    [][C6_FailureKeeps /\ C6_FileRecordsUnique /\ C6_NextRunAdmitsUnique]_vars

\* ----------------------------------------------------------------------- C7

\* the step that counts a job as done and appends its path to the results
\* has written the archive and leaves no checkpoint, no frames directory and
\* no {video_id}.video behind
C7_Step ==
    \A v \in VideoIds :
        Packaged(v) =>
            /\ rtt'[v] = "ok"
            /\ done_count' = done_count + 1
            /\ ckpt'[v] = "absent"
            /\ ~framesdir'[v]
            /\ ~video'[v]

\* C7: when frames_worker has written {video_id}.rtt, then by the time the
\* job is counted as done and its path appended to the results, the
\* checkpoint {video_id}.rtt.json, the directory {video_id}.frames and the
\* file {video_id}.video no longer exist.
C7_CleanAfterPackage == [][C7_Step]_vars

\* a platform job has been packaged: its checkpoint was embedded, its
\* frames directory was made and its video downloaded, and all are gone
C7_Witness ==
    \E j \in JobIdx :
        /\ wpc[j] = "packaged"
        /\ IsYoutube(j)
        /\ {"dl_video", "extract"} \subseteq called[j]
        /\ jstatus[j] = "embedded"
        /\ rtt[Vid(j)] = "ok"
        /\ ckpt[Vid(j)] = "absent"
        /\ ~framesdir[Vid(j)]
        /\ ~video[Vid(j)]

\* ----------------------------------------------------------------------- C8

\* the step that logs a job's failure and marks the item done leaves none of
\* the job's scratch files (jobs with a unique video_id)
C8_Step ==
    \A j \in JobIdx :
        (Fails(j) /\ UniqueId(j)) =>
            /\ ~audio'[Vid(j)]
            /\ ~video'[Vid(j)]
            /\ ~framesdir'[Vid(j)]

\* C8: whenever a job fails in any stage, its scratch files are removed:
\* once the failure is logged and the item marked done, none of
\* {video_id}.audio, {video_id}.video and {video_id}.frames/ exists.
C8_ScratchRemovedOnFailure == [][C8_Step]_vars

\* what the except branches do remove: {video_id}.video, always
C8_VideoStep ==
    \A j \in JobIdx : (Fails(j) /\ UniqueId(j)) => ~video'[Vid(j)]

\* a failed job leaves no {video_id}.video
C8_VideoRemovedOnFailure == [][C8_VideoStep]_vars

\* ----------------------------------------------------------------------- C9

\* stage s has nothing waiting and nothing in the middle of processing
Drained(s) == queue[s] = <<>> /\ held[s] = {} /\ unfinished[s] = 0

\* when the workers are cancelled every stage is drained
C9_CancelDrained == opc = "done" => \A s \in StageSet : Drained(s)

\* while the orchestrator awaits the join of one queue, the stages before it
\* in the pipeline stay drained: nothing feeds them any more
C9_JoinedStay ==
    opc = "join" => \A k \in 1..Len(Stages) : k < oidx => Drained(Stages[k])

\* C9: the workers and the status printer are cancelled only after all four
\* queues have joined; at cancellation no job waits in a queue and no worker
\* is in the middle of a job; joining in the order transcribe, enrich,
\* embed, frames is sufficient.
C9_CancelAfterDrain == C9_CancelDrained /\ C9_JoinedStay

\* process_batch has returned after its workers packaged one job and logged
\* the failure of the other
C9_Witness ==
    /\ opc = "done"
    /\ done_count = 1
    /\ Len(NewLines) = 1
    /\ skipped = 0

\* ---------------------------------------------------------------------- C10

\* The event loop runs every coroutine that can go on, and an external call
\* that is awaited returns or raises; a new run is started by the user, or
\* never.
FairSpec == Spec /\ WF_vars(Orchestrator) /\ WF_vars(Workers)

\* every job admission put on a queue, and so counted as unfinished, has
\* since been marked done exactly once unless it is still queued or held
C10_DoneOnce ==
    \A s \in StageSet :
        /\ unfinished[s] >= 0
        /\ unfinished[s] = Len(queue[s]) + Cardinality(held[s])

\* a run that has started returns
C10_RunReturns == (opc = "admit") ~> (opc = "done")

\* when the run has returned, an admitted job is packaged or has its failure
\* logged
C10_JobSettled ==
    opc = "done" =>
        \A j \in JobIdx :
            admitted[j] \in StageSet => wpc[j] \in {"packaged", "failed"}

\* C10: if every external call returns or raises and every pool has a
\* worker, process_batch terminates: every admitted job has its archive
\* written or a failure logged, every item taken from a queue is marked done
\* exactly once on every path, and the four joins return.
C10_Terminates == [](C10_DoneOnce /\ C10_JobSettled) /\ C10_RunReturns

\* a run has returned in which a transcript came back empty, a call raised
\* and a job was packaged, on pools of one worker
C10_Witness ==
    /\ opc = "done"
    /\ run = 2
    /\ pool["transcribe"] = 1
    /\ done_count >= 1
    /\ Len(NewLines) >= 1
    /\ \A j \in JobIdx : admitted[j] \in StageSet

\* ---------------------------------------------------------------------- C13

\* job j of the list is in the pipeline: on a queue or with a worker
InPipeline(j) == Places(j) > 0

\* C13: for any video_id at most one pipeline task holds its checkpoint at a
\* time: for every job list, one that names a video_id twice included, no
\* two jobs with the same video_id are in the pipeline together.
C13_OneWriter ==
    \A i, j \in JobIdx :
        (i # j /\ Vid(i) = Vid(j)) => ~(InPipeline(i) /\ InPipeline(j))

\* ---------------------------------------------------------------------- C11

\* in the run that follows a crash, admission of a job whose video_id is
\* unique neither raises nor skips an archive that is not complete
C11_AdmitAfterCrash ==
    (crashed /\ opc = "admit" /\ UniqueId(oidx)) =>
        /\ opc' # "raised"
        /\ rtt[Vid(oidx)] # "none" => rtt[Vid(oidx)] = "ok"

\* C11: after a crash of process_batch at any point, also inside the write
\* of a checkpoint or of an archive, the re-run with the same jobs produces
\* the archives of an uninterrupted run: archives completed before the crash
\* are skipped, every other job resumes from its persisted status.
C11_CrashResume == [][C11_AdmitAfterCrash]_vars

\* ---------------------------------------------------------------------- C12

\* C12: a checkpoint write is an atomic replace: whatever the moment of the
\* crash, {video_id}.rtt.json holds a complete content, old or new, and
\* _load_status of the next run parses it.
C12_CheckpointParses == \A v \in VideoIds : Parses(v)

\* ===================================================== the data of one job
\*
\* What process_batch does to the segments of one job (jobs[1], its video_id
\* unique), stage by stage and run by run: the texts and vectors the services
\* return are any the service can return, a stage may raise, and a later run
\* resumes from the checkpoint.  Texts are "x" and "y", a vector is known by
\* its width.

\* the embedding width the archive format expects
Dim == 768
\* most segments a transcript has, most items a service replies with
MaxSegs == 2

Texts == {"x", "y"}
Widths == {Dim - 1, Dim}

\* the sequences over S of length lo..hi
SeqsOf(S, lo, hi) == UNION {[1..n -> S] : n \in lo..hi}

\* types.py:4-16: a Segment as the transcriber leaves it
Segment(raw) == [transcript_raw |-> raw, transcript_enriched |-> "", text_embedding |-> 0]

\* _Job(job=job): an empty status dict; "" stands for a key that is not set
NoStatus ==
    [status |-> "none", segments |-> <<>>, enriched |-> <<>>, embeddings |-> <<>>,
     transcript_source |-> ""]

\* no checkpoint file, no archive file
NoFile ==
    [status |-> "absent", segments |-> <<>>, enriched |-> <<>>, embeddings |-> <<>>,
     transcript_source |-> ""]
NoArchive == [exists |-> FALSE, segments |-> <<>>]

\* for seg, x in zip(segs, xs): seg.<field> = x, stopping at the shorter list
ZipEnriched(segs, xs) ==
    [i \in DOMAIN segs |->
        IF i <= Len(xs) THEN [segs[i] EXCEPT !.transcript_enriched = xs[i]] ELSE segs[i]]
ZipEmbedding(segs, xs) ==
    [i \in DOMAIN segs |->
        IF i <= Len(xs) THEN [segs[i] EXCEPT !.text_embedding = xs[i]] ELSE segs[i]]

\* everything of the scheduling model but run and skip_enrich
sched == <<disk, faillog, jobs, pool, log_base, orch, queue, unfinished, held, wpc,
           jstatus, results, done_count, skipped, hist, crashed>>

\* what the steps on the job's data leave alone
d_rest == <<sched, trans, frm, pkg, srv>>

\* a service's reply: it raised, or it returned a list (None counts as the
\* empty list: the code tests `if segments`)
Replies(S) ==
    {[raised |-> TRUE, items |-> <<>>]}
        \cup {[raised |-> FALSE, items |-> q] : q \in SeqsOf(S, 0, MaxSegs)}

\* no service of transcribe_worker was asked
NoReply ==
    [subs |-> <<>>, subs_raised |-> FALSE, dl_raised |-> FALSE,
     asr |-> <<>>, asr_raised |-> FALSE, normalized |-> <<>>, subs_normalized |-> <<>>]

DataInit ==
    /\ BatchInit
    /\ \E y \in BOOLEAN :
        jobs = [j \in JobIdx |-> [video_id |-> IF j = 1 THEN "a" ELSE "b", youtube |-> y]]
    /\ pool = [s \in StageSet |-> 1]
    /\ IdleBut("data")
    /\ d_log = <<>>
    /\ d_calls = {}
    /\ d_reply = NoReply
    /\ d_pc = "admit"
    /\ d_status = NoStatus
    /\ d_ckpt = NoFile
    /\ d_segs = <<>>
    /\ d_arch = NoArchive

\* batch.py:298-338 for the one job
D_Admit ==
    /\ d_pc = "admit"
    /\ IF d_arch.exists
       THEN d_pc' = "skipped" /\ UNCHANGED <<d_status, d_segs>>
       ELSE IF d_ckpt.status = "absent"
       THEN d_pc' = "transcribe" /\ UNCHANGED <<d_status, d_segs>>
       ELSE LET raw == [i \in DOMAIN d_ckpt.segments |-> Segment(d_ckpt.segments[i])]
                enr == ZipEnriched(raw, d_ckpt.enriched)
            IN /\ d_status' = d_ckpt
               /\ d_pc' = AdmitQueue(d_ckpt.status)
               /\ d_segs' = CASE d_ckpt.status = "transcribed" -> raw
                              [] d_ckpt.status = "enriched" -> enr
                              [] OTHER -> ZipEmbedding(enr, d_ckpt.embeddings)
    /\ UNCHANGED <<d_ckpt, d_arch, d_log, d_calls, d_reply, run, skip_enrich, d_rest>>

\* the except branch of a later stage, its awaited call having raised: one
\* line in the failures log, the job is dropped, the files stay
D_Fail ==
    /\ d_pc \in {"enrich", "embed", "frames"}
    /\ d_pc = "enrich" => ~skip_enrich
    /\ d_pc' = "failed"
    /\ d_log' = Append(d_log, "exception")
    /\ d_calls' = d_calls \cup {d_pc}
    /\ UNCHANGED <<d_status, d_ckpt, d_segs, d_arch, d_reply, run, skip_enrich, d_rest>>

\* variant: the job is dropped after its checkpoint was written
T_FailSaved(error, calls, reply, source) ==
    /\ d_pc' = "failed"
    /\ d_log' = Append(d_log, error)
    /\ d_calls' = d_calls \cup calls
    /\ d_reply' = reply
    /\ d_status' = [d_status EXCEPT !.transcript_source = source]
    /\ d_ckpt' = [d_status EXCEPT !.status = "transcribed", !.transcript_source = source]
    /\ UNCHANGED d_segs

\* batch.py:161-163 and 136-148: transcribe_worker drops the job with one
\* line in the failures log; source is j.status["transcript_source"] as set
\* so far (batch.py:114, 142)
T_Fail(error, calls, reply, source) ==
    /\ d_pc' = "failed"
    /\ d_log' = Append(d_log, error)
    /\ d_calls' = d_calls \cup calls
    /\ d_reply' = reply
    /\ d_status' = [d_status EXCEPT !.transcript_source = source]
    /\ UNCHANGED <<d_ckpt, d_segs>>

\* variant: the tag of the source is always that of ASR
T_PassAsrTag(raws, calls, reply, source) ==
    LET st == [d_status EXCEPT !.status = "transcribed", !.segments = raws,
                               !.transcript_source = "assemblyai"] IN
    /\ d_segs' = [i \in DOMAIN raws |-> Segment(raws[i])]
    /\ d_status' = st
    /\ d_ckpt' = st
    /\ d_pc' = "enrich"
    /\ d_calls' = d_calls \cup calls
    /\ d_reply' = reply
    /\ UNCHANGED d_log

\* batch.py:150-160: the segments are stored, the checkpoint is saved with
\* status transcribed, the job goes to Enrich
T_Pass(raws, calls, reply, source) ==
    LET st == [d_status EXCEPT !.status = "transcribed", !.segments = raws,
                               !.transcript_source = source] IN
    /\ d_segs' = [i \in DOMAIN raws |-> Segment(raws[i])]
    /\ d_status' = st
    /\ d_ckpt' = st
    /\ d_pc' = "enrich"
    /\ d_calls' = d_calls \cup calls
    /\ d_reply' = reply
    /\ UNCHANGED d_log

\* batch.py:117-148: no segments so far: ASR, on the downloaded audio for a
\* platform job, on the source_url otherwise
T_Asr(calls, reply, source) ==
    \E dl_raised \in (IF IsYoutube(1) THEN BOOLEAN ELSE {FALSE}) :
        IF dl_raised
        THEN T_Fail("exception", calls \cup {"dl_audio"}, [reply EXCEPT !.dl_raised = TRUE],
                    source)
        ELSE LET c == calls \cup (IF IsYoutube(1) THEN {"dl_audio", "asr"} ELSE {"asr"}) IN
             \E asr \in Replies(Texts) :
                 IF asr.raised
                 THEN T_Fail("exception", c, [reply EXCEPT !.asr_raised = TRUE], source)
                 ELSE IF asr.items = <<>>
                 THEN T_Fail("No segments returned", c, reply, source)
                 ELSE \E n \in SeqsOf(Texts, 0, MaxSegs) :
                         LET r == [reply EXCEPT !.asr = asr.items, !.normalized = n] IN
                         IF n = <<>>
                         THEN T_Fail("No segments after normalization", c, r, "assemblyai")
                         ELSE T_Pass(n, c, r, "assemblyai")

\* batch.py:104-164: transcribe_worker for the job, for every reply of the
\* subtitle service, of the download, of ASR and of normalize.normalize
D_Transcribe ==
    /\ d_pc = "transcribe"
    /\ IF IsYoutube(1)
       THEN \E subs \in Replies(Texts) :
               IF subs.raised
               THEN T_Fail("exception", {"subs"}, [NoReply EXCEPT !.subs_raised = TRUE], "")
               ELSE IF subs.items = <<>>
               THEN T_Asr({"subs"}, NoReply, "")
               ELSE \E n \in SeqsOf(Texts, 0, MaxSegs) :
                       LET r == [NoReply EXCEPT !.subs = subs.items, !.normalized = n,
                                                !.subs_normalized = n] IN
                       IF n = <<>>
                       THEN T_Asr({"subs"}, r, "youtube")
                       ELSE T_Pass(n, {"subs"}, r, "youtube")
       ELSE T_Asr({}, NoReply, "")
    /\ UNCHANGED <<d_arch, run, skip_enrich, d_rest>>

\* batch.py:173-190
D_Enrich ==
    /\ d_pc = "enrich"
    /\ IF skip_enrich
       THEN /\ d_segs' = [i \in DOMAIN d_segs |->
                            [d_segs[i] EXCEPT !.transcript_enriched = d_segs[i].transcript_raw]]
            /\ UNCHANGED <<d_status, d_ckpt, d_calls>>
       ELSE IF d_status.status = "transcribed"
       THEN \E reply \in SeqsOf(Texts, 0, MaxSegs) :
               LET segs == ZipEnriched(d_segs, reply)
                   st == [d_status EXCEPT
                            !.status = "enriched",
                            !.enriched = [i \in DOMAIN segs |-> segs[i].transcript_enriched]]
               IN /\ d_segs' = segs
                  /\ d_status' = st
                  /\ d_ckpt' = st
                  /\ d_calls' = d_calls \cup {"enrich"}
       ELSE UNCHANGED <<d_segs, d_status, d_ckpt, d_calls>>
    /\ d_pc' = "embed"
    /\ UNCHANGED <<d_arch, d_log, d_reply, run, skip_enrich, d_rest>>

\* batch.py:205-214
D_Embed ==
    /\ d_pc = "embed"
    /\ \E reply \in SeqsOf(Widths, 0, MaxSegs) :
        LET st == [d_status EXCEPT !.status = "embedded", !.embeddings = reply] IN
        /\ d_segs' = ZipEmbedding(d_segs, reply)
        /\ d_status' = st
        /\ d_ckpt' = st
    /\ d_pc' = "frames"
    /\ d_calls' = d_calls \cup {"embed"}
    /\ UNCHANGED <<d_arch, d_log, d_reply, run, skip_enrich, d_rest>>

\* batch.py:263-268: package.create writes the segments, _cleanup removes the
\* checkpoint
D_Package ==
    /\ d_pc = "frames"
    /\ d_arch' = [exists |-> TRUE, segments |-> d_segs]
    /\ d_ckpt' = NoFile
    /\ d_pc' = "packaged"
    /\ d_calls' = d_calls \cup {"frames"}
    /\ UNCHANGED <<d_status, d_segs, d_log, d_reply, run, skip_enrich, d_rest>>

\* process_batch is run again for the same job
D_Restart ==
    /\ d_pc \in {"skipped", "packaged", "failed"}
    /\ run < MaxRuns
    /\ run' = run + 1
    /\ skip_enrich' \in BOOLEAN
    /\ d_pc' = "admit"
    /\ d_status' = NoStatus
    /\ d_segs' = <<>>
    /\ d_log' = <<>>
    /\ d_calls' = {}
    /\ d_reply' = NoReply
    /\ UNCHANGED <<d_ckpt, d_arch, d_rest>>

DataNext ==
    \/ D_Admit
    \/ D_Fail
    \/ D_Transcribe
    \/ D_Enrich
    \/ D_Embed
    \/ D_Package
    \/ D_Restart

DataSpec == DataInit /\ [][DataNext]_vars

\* ---------------------------------------------------------------------- C14

\* the step writes the job's archive
ArchiveWritten == ~d_arch.exists /\ d_arch'.exists

\* C14: when enrichment is disabled the enricher is not called and every
\* segment of every archive the run produces has transcript_enriched equal
\* to transcript_raw, whether the job started in this run or was resumed
\* from a transcribed, enriched or embedded checkpoint.
C14_SkipKeepsRaw ==
    [][(skip_enrich /\ ArchiveWritten) =>
          \A i \in DOMAIN d_arch'.segments :
              d_arch'.segments[i].transcript_enriched = d_arch'.segments[i].transcript_raw]_vars

\* what does hold: a job that goes through enrich_worker in the run
C14_SkipFromTranscribed ==
    [][(skip_enrich /\ ArchiveWritten /\ d_status.enriched = <<>>
           /\ \A i \in DOMAIN d_segs : d_segs[i].transcript_enriched # "") =>
          \A i \in DOMAIN d_arch'.segments :
              d_arch'.segments[i].transcript_enriched = d_arch'.segments[i].transcript_raw]_vars

\* ---------------------------------------------------------------------- C15

\* ASR was called in this run, did not raise, and either returned no
\* segments or normalization left none
AsrEmpty == "asr" \in d_calls /\ ~d_reply.asr_raised /\ d_reply.normalized = <<>>

\* the subtitle service was asked and returned no track or an empty one
SubsMissing == "subs" \in d_calls /\ ~d_reply.subs_raised /\ d_reply.subs = <<>>

\* the job has passed Transcribe in this run
Transcribed == d_status.status # "none"

\* an empty transcript is a failure: one line, no checkpoint, job dropped
C15_EmptyFails ==
    AsrEmpty =>
        /\ d_pc = "failed"
        /\ Len(d_log) = 1
        /\ d_log[1] \in {"No segments returned", "No segments after normalization"}
        /\ d_ckpt.status = "absent"
        /\ d_segs = <<>>
        /\ d_calls \cap {"enrich", "embed", "frames"} = {}

\* no subtitles is no failure: the audio is downloaded and ASR is called,
\* and when ASR gives a transcript the job passes Transcribe
C15_MissingSubsFallBack ==
    SubsMissing =>
        /\ "dl_audio" \in d_calls
        /\ ~d_reply.dl_raised => "asr" \in d_calls
        /\ (~d_reply.dl_raised /\ ~d_reply.asr_raised /\ d_reply.normalized # <<>>)
              => Transcribed

\* C15: in Transcribe an empty transcript (no segments from ASR, or none left
\* after normalization) is a failure: one failure line is logged, no
\* checkpoint is written and the job is dropped; a missing or empty subtitle
\* track of a platform job is no failure, the worker falls back to ASR.
C15_EmptyTranscriptFails == C15_EmptyFails /\ C15_MissingSubsFallBack

\* a platform job without subtitles whose ASR transcript was emptied by
\* normalization: it failed with that line
C15_Witness ==
    /\ SubsMissing
    /\ AsrEmpty
    /\ d_reply.asr # <<>>
    /\ d_log = <<"No segments after normalization">>
    /\ d_pc = "failed"

\* ---------------------------------------------------------------------- C16

\* C16: every segment written to an archive has a text_embedding of exactly
\* Dim values, whatever the embedder replied and whatever checkpoint the job
\* was resumed from: a reply with fewer vectors than texts, or with vectors
\* of another width, never ends in a packaged archive.
C16_EmbeddingWidth ==
    [][ArchiveWritten =>
          \A i \in DOMAIN d_arch'.segments :
              d_arch'.segments[i].text_embedding = Dim]_vars

\* what does hold: a reply of one vector of width Dim per segment is written
\* to the archive as it came
C16_GoodReplyKept ==
    [][(ArchiveWritten /\ Len(d_status.embeddings) = Len(d_segs)
           /\ \A i \in DOMAIN d_status.embeddings : d_status.embeddings[i] = Dim) =>
          \A i \in DOMAIN d_arch'.segments :
              d_arch'.segments[i].text_embedding = Dim]_vars

\* ============================== AssemblyAITranscriber.transcribe_url
\*
\* One call of transcribe_url on any transcript the service can return: a
\* list of utterances and a list of words, each with a text and a start and
\* an end in milliseconds.  A text is known by whether it is padded with
\* white space and by the number of its words.

\* most utterances and most words of a transcript
MaxUtts == 2
MaxWords == 2
\* the default of max_gap_ms
max_gap_ms == 1500

TimesMs == {0, 1000, 3000}

\* " " and " hi "
ServiceTexts == {[padded |-> TRUE, words |-> 0], [padded |-> TRUE, words |-> 1]}

Items == [text : ServiceTexts, start : TimesMs, end : TimesMs]

\* str.strip()
Strip(text) == [text EXCEPT !.padded = FALSE]

\* the text is ""
IsEmpty(text) == text.words = 0 /\ ~text.padded

\* " ".join(w.text for w in chunk)
RECURSIVE Join(_)
Join(chunk) ==
    IF chunk = <<>> THEN [padded |-> FALSE, words |-> 0]
    ELSE IF Len(chunk) = 1 THEN chunk[1].text
    ELSE LET rest == Join(Tail(chunk)) IN
         [padded |-> TRUE, words |-> chunk[1].text.words + rest.words]

\* f"{video_id}_{i:05d}"
SegmentId(video_id, i) == [prefix |-> video_id, index |-> i]

\* t.Segment(...) as the transcriber builds it; x / 1000.0 keeps the order
\* of the millisecond values, which stand for the seconds here
TSegment(video_id, i, text, start, end) ==
    [segment_id |-> SegmentId(video_id, i), video_id |-> video_id,
     start_seconds |-> start, end_seconds |-> end, transcript_raw |-> text]

\* transcribe.py:65-75: the loop over the utterances, from index i on
RECURSIVE FromUtterances(_, _, _)
FromUtterances(utts, video_id, i) ==
    IF i > Len(utts) THEN <<>>
    ELSE LET text == Strip(utts[i].text)
             rest == FromUtterances(utts, video_id, i + 1)
         IN IF IsEmpty(text) THEN rest
            ELSE <<TSegment(video_id, i - 1, text, utts[i].start, utts[i].end)>> \o rest

\* transcribe.py:81-85: the words cut into chunks where the gap to the word
\* before is above max_gap_ms
RECURSIVE Chunks(_, _)
Chunks(words, chunks) ==
    IF words = <<>> THEN chunks
    ELSE LET w == Head(words)
             last == chunks[Len(chunks)]
         IN IF last # <<>> /\ w.start - last[Len(last)].end > max_gap_ms
            THEN Chunks(Tail(words), Append(chunks, <<w>>))
            ELSE Chunks(Tail(words), [chunks EXCEPT ![Len(chunks)] = Append(last, w)])

\* transcribe.py:86-100: a segment per chunk that has a text
RECURSIVE FromChunks(_, _, _)
FromChunks(chunks, video_id, i) ==
    IF i > Len(chunks) THEN <<>>
    ELSE LET chunk == chunks[i]
             text == Strip(Join(chunk))
             rest == FromChunks(chunks, video_id, i + 1)
         IN IF chunk = <<>> \/ IsEmpty(text) THEN rest
            ELSE <<TSegment(video_id, i - 1, text, chunk[1].start, chunk[Len(chunk)].end)>>
                     \o rest

\* transcribe.py:80-100
_segments_from_words(words, video_id) == FromChunks(Chunks(words, <<<<>>>>), video_id, 1)

\* transcribe.py:64-78, the transcript being no error
transcribe_url(transcript, video_id) ==
    LET segments == FromUtterances(transcript.utterances, video_id, 1) IN
    IF segments = <<>> /\ transcript.words # <<>>
    THEN _segments_from_words(transcript.words, video_id)
    ELSE segments

\* what the transcriber's call leaves alone
t_rest == <<sched, run, skip_enrich, data, frm, pkg, srv>>

TransInit ==
    /\ BatchInit
    /\ jobs = [j \in JobIdx |-> [video_id |-> "a", youtube |-> FALSE]]
    /\ pool = [s \in StageSet |-> 1]
    /\ skip_enrich = FALSE
    /\ IdleBut("trans")
    /\ t_pc = "call"
    /\ t_video_id \in VideoIds
    /\ t_transcript \in [utterances : SeqsOf(Items, 0, MaxUtts), words : SeqsOf(Items, 0, MaxWords)]
    /\ t_segments = <<>>

\* transcribe.py:62-78: the transcript came back
T_Return ==
    /\ t_pc = "call"
    /\ t_pc' = "returned"
    /\ t_segments' = transcribe_url(t_transcript, t_video_id)
    /\ UNCHANGED <<t_video_id, t_transcript, t_rest>>

\* transcribe.py:62-63: the transcript's status is error
T_Raise ==
    /\ t_pc = "call"
    /\ t_pc' = "raised"
    /\ UNCHANGED <<t_video_id, t_transcript, t_segments, t_rest>>

TransNext == T_Return \/ T_Raise

TransSpec == TransInit /\ [][TransNext]_vars

\* ---------------------------------------------------------------------- C17

\* the texts and the ids of the returned segments
C17_TextAndIds ==
    \A i \in DOMAIN t_segments :
        /\ ~IsEmpty(Strip(t_segments[i].transcript_raw))
        /\ t_segments[i].video_id = t_video_id
        /\ t_segments[i].segment_id.prefix = t_video_id

\* the times of the returned segments
C17_Times ==
    /\ \A i \in DOMAIN t_segments : t_segments[i].start_seconds < t_segments[i].end_seconds
    /\ \A i \in DOMAIN t_segments :
        i > 1 => t_segments[i - 1].start_seconds <= t_segments[i].start_seconds

\* C17: every segment a transcriber returns has start_seconds < end_seconds,
\* a transcript_raw that is not empty after trimming, the requested
\* video_id, a segment_id that starts with it, and the segments are in
\* non-decreasing order of start.
C17_SegmentShape == C17_TextAndIds /\ C17_Times

\* ================================================== the frames of one job
\*
\* frames.extract (one timestamp after the other) or frames.extract_remote
\* (the timestamps concurrently under a semaphore, finishing in any order) on a frames
\* directory that may hold files of an earlier run, then the rest of
\* frames_worker: frame_path is set from the returned paths and
\* package.create stores every *.jpg of the directory.  A timestamp is in
\* tenths of a second, a frame file is known by its whole second.

\* most segments of the job
MaxStamps == 2

Stamps == {12, 17, 25}

\* most subprocesses extract_remote is allowed at a time
MaxConcurrency == 2

\* f"{int(ts):06d}.jpg"
FrameName(ts) == ToString(ts \div 10) \o ".jpg"

FrameNames == {FrameName(ts) : ts \in Stamps}

\* what one run of ffmpeg can do: write the frame and exit 0; exit non-zero;
\* exit 0 having written nothing
Ffmpeg == {"frame", "error", "nothing"}

\* f"frames/{fp.name}" if fp else ""
FramePath(fp) == IF fp = "None" THEN <<>> ELSE <<"frames", fp>>

\* what the frame steps leave alone
f_rest == <<sched, run, skip_enrich, data, trans, pkg, srv>>

FramesInit ==
    /\ BatchInit
    /\ jobs = [j \in JobIdx |-> [video_id |-> "a", youtube |-> FALSE]]
    /\ pool = [s \in StageSet |-> 1]
    /\ skip_enrich = FALSE
    /\ IdleBut("frames")
    /\ f_pc \in {"extract", "remote"}
    /\ f_timestamps \in SeqsOf(Stamps, 1, MaxStamps)
    /\ f_dir \in SUBSET FrameNames
    /\ f_paths = [i \in DOMAIN f_timestamps |-> "pending"]
    /\ f_archive = [frame_path |-> <<>>, entries |-> {}]
    /\ f_concurrency \in (IF f_pc = "remote" THEN 1..MaxConcurrency ELSE {0})
    /\ f_sem = f_concurrency

\* the timestamps whose ffmpeg has not been started
Pending == {i \in DOMAIN f_paths : f_paths[i] = "pending"}

\* the timestamps whose ffmpeg subprocess runs, inside `async with sem`
Running == {i \in DOMAIN f_paths : f_paths[i] = "running"}

\* the timestamps whose ffmpeg may finish next: the first pending one in
\* extract's loop, any running one under extract_remote's gather
MayFinish ==
    IF f_pc = "extract"
    THEN {i \in Pending : \A k \in Pending : i <= k}
    ELSE Running

\* frames.py:42-48: _one(ts) enters `async with sem` and starts ffmpeg; the
\* tasks of gather start in the order of the timestamps and a semaphore
\* wakes its waiters in the order they came
F_Acquire(i) ==
    /\ f_pc = "remote"
    /\ i \in Pending
    /\ \A k \in Pending : i <= k
    /\ f_sem > 0
    /\ f_sem' = f_sem - 1
    /\ f_paths' = [f_paths EXCEPT ![i] = "running"]
    /\ UNCHANGED <<f_pc, f_timestamps, f_dir, f_archive, f_concurrency, f_rest>>

\* frames.py:12-22 and 40-57: ffmpeg has run for timestamp i; under
\* extract_remote the semaphore is released
F_One(i, result) ==
    /\ f_pc \in {"extract", "remote"}
    /\ i \in MayFinish
    /\ f_sem' = IF f_pc = "remote" THEN f_sem + 1 ELSE f_sem
    /\ LET out == FrameName(f_timestamps[i])
           written == IF result = "frame" THEN f_dir \cup {out} ELSE f_dir
       IN IF result = "error" \/ out \notin written
          THEN /\ f_dir' = written \ {out}
               /\ f_paths' = [f_paths EXCEPT ![i] = "None"]
          ELSE /\ f_dir' = written
               /\ f_paths' = [f_paths EXCEPT ![i] = out]
    /\ UNCHANGED <<f_pc, f_timestamps, f_archive, f_concurrency, f_rest>>

\* batch.py:249-263 with package.py:55-57: the paths came back, frame_path
\* is set, the archive takes the *.jpg files of the directory
F_Package ==
    /\ f_pc \in {"extract", "remote"}
    /\ Pending = {} /\ Running = {}
    /\ f_archive' = [frame_path |-> [i \in DOMAIN f_paths |-> FramePath(f_paths[i])],
                     entries |-> {<<"frames", n>> : n \in f_dir}]
    /\ f_pc' = "packaged"
    /\ UNCHANGED <<f_timestamps, f_dir, f_paths, f_concurrency, f_sem, f_rest>>

FramesNext ==
    \/ \E i \in 1..MaxStamps : F_Acquire(i)
    \/ \E i \in 1..MaxStamps, result \in Ffmpeg : F_One(i, result)
    \/ F_Package

FramesSpec == FramesInit /\ [][FramesNext]_vars

\* ---------------------------------------------------------------------- C18

\* C18: in every archive each segment's frame_path is empty or names a JPEG
\* entry of that archive, for every combination of extraction successes and
\* failures, two segments in the same whole-second bucket and frame files
\* left by an earlier run included.
C18_FramePathPresent ==
    f_pc = "packaged" =>
        \A i \in DOMAIN f_archive.frame_path :
            \/ f_archive.frame_path[i] = <<>>
            \/ f_archive.frame_path[i] \in f_archive.entries

\* two timestamps of the same whole second
SameBucket ==
    \E i, k \in DOMAIN f_timestamps : i # k /\ FrameName(f_timestamps[i]) = FrameName(f_timestamps[k])

\* what does hold: the claim for segments in different whole seconds
C18_DistinctBuckets == ~SameBucket => C18_FramePathPresent

\* ================================================== package.create and load
\*
\* create(video, segments, frames_dir, output_path) followed by load of the
\* file it wrote.  types.py declares Video and Segment without page_url and
\* collection, which create, load and batch.py use: with those declarations
\* create raises on video.page_url and load on Video(page_url=...); with the
\* fields declared both return.  Both outcomes are steps of the model.  An
\* embedding is known by its width.

VideoStatuses == {"new", "ready"}

\* types.py:18-25 with the fields batch.py:256-262 passes
Videos ==
    [video_id : VideoIds, title : {"t"}, source_url : {"", "u"}, page_url : {"", "p"},
     context : {"c"}, duration_seconds : {3}, status : VideoStatuses, collection : {"", "k"}]

\* types.py:4-16 with the collection batch.py:254 assigns
Segments ==
    [segment_id : {"a_00000", "a_00001"}, video_id : VideoIds, start_seconds : {0},
     end_seconds : {3}, transcript_raw : {"x"}, transcript_enriched : {"x+"},
     text_embedding : {0, Dim}, frame_path : {""}, has_speech : {TRUE},
     source : {"transcript"}, collection : {"", "k"}]

FrameFiles == {"000000.jpg", "000003.jpg"}

\* frames_dir: None, or a directory and its files
FrameDirs == {[given |-> FALSE, files |-> {}]} \cup {[given |-> TRUE, files |-> F] : F \in SUBSET FrameFiles}

\* **({"k": v} if v else {}): the key is there only for a non-empty value
IfSet(v) == IF v = "" THEN <<>> ELSE <<v>>

\* manifest.get("k", ""): the value, or the default where the key is missing
GetOr(entry, default) == IF entry = <<>> THEN default ELSE entry[1]

\* package.py:12-23: the parquet table, a row per segment
Reversed(s) == [i \in DOMAIN s |-> s[Len(s) + 1 - i]]

TableReversed(segments) ==
    LET rows == Reversed(segments) IN
    [i \in DOMAIN rows |->
        [segment_id |-> rows[i].segment_id, video_id |-> rows[i].video_id,
         start_seconds |-> rows[i].start_seconds, end_seconds |-> rows[i].end_seconds,
         transcript_raw |-> rows[i].transcript_raw,
         transcript_enriched |-> rows[i].transcript_enriched,
         text_embedding |-> rows[i].text_embedding, frame_path |-> rows[i].frame_path,
         has_speech |-> rows[i].has_speech, source |-> rows[i].source]]

Table(segments) ==
    [i \in DOMAIN segments |->
        [segment_id |-> segments[i].segment_id, video_id |-> segments[i].video_id,
         start_seconds |-> segments[i].start_seconds, end_seconds |-> segments[i].end_seconds,
         transcript_raw |-> segments[i].transcript_raw,
         transcript_enriched |-> segments[i].transcript_enriched,
         text_embedding |-> segments[i].text_embedding, frame_path |-> segments[i].frame_path,
         has_speech |-> segments[i].has_speech, source |-> segments[i].source]]

\* package.py:25-46
Manifest(v, segments) ==
    [video_id |-> v.video_id,
     status |-> "ready",
     title |-> v.title,
     source_url |-> IfSet(v.source_url),
     page_url |-> IfSet(v.page_url),
     context |-> v.context,
     duration_seconds |-> v.duration_seconds,
     segments |-> [i \in DOMAIN segments |->
        [segment_id |-> segments[i].segment_id,
         start_seconds |-> segments[i].start_seconds, end_seconds |-> segments[i].end_seconds,
         source |-> segments[i].source, transcript_raw |-> segments[i].transcript_raw,
         transcript_enriched |-> segments[i].transcript_enriched,
         frame_path |-> segments[i].frame_path, has_speech |-> segments[i].has_speech]]]

\* package.py:11-59: the archive create writes
create(v, segments, frames_dir) ==
    [manifest |-> Manifest(v, segments),
     parquet |-> Table(segments),
     frames |-> IF frames_dir.given THEN {<<"frames", n>> : n \in frames_dir.files} ELSE {}]

\* package.py:62-95: the video and the segments load builds from the manifest;
\* collection and text_embedding are not passed and take their defaults
load(archive) ==
    LET m == archive.manifest IN
    [video |-> [video_id |-> m.video_id, title |-> m.title,
                source_url |-> GetOr(m.source_url, ""), page_url |-> GetOr(m.page_url, ""),
                context |-> m.context, duration_seconds |-> m.duration_seconds,
                status |-> m.status, collection |-> ""],
     segments |-> [i \in DOMAIN m.segments |->
        [segment_id |-> m.segments[i].segment_id, video_id |-> m.video_id,
         start_seconds |-> m.segments[i].start_seconds, end_seconds |-> m.segments[i].end_seconds,
         transcript_raw |-> m.segments[i].transcript_raw,
         transcript_enriched |-> m.segments[i].transcript_enriched,
         text_embedding |-> 0, frame_path |-> m.segments[i].frame_path,
         has_speech |-> m.segments[i].has_speech, source |-> m.segments[i].source,
         collection |-> ""]],
     table |-> archive.parquet]

\* what the package steps leave alone
p_rest == <<sched, run, skip_enrich, data, trans, frm, srv>>

PackageInit ==
    /\ BatchInit
    /\ jobs = [j \in JobIdx |-> [video_id |-> "a", youtube |-> FALSE]]
    /\ pool = [s \in StageSet |-> 1]
    /\ skip_enrich = FALSE
    /\ IdleBut("package")
    /\ p_pc = "create"
    /\ p_video \in Videos
    /\ p_segments \in SeqsOf(Segments, 0, MaxSegs)
    /\ p_frames \in FrameDirs
    /\ p_archive = <<>>
    /\ p_loaded = <<>>

\* package.py:11-59
P_Create ==
    /\ p_pc = "create"
    /\ p_archive' = create(p_video, p_segments, p_frames)
    /\ p_pc' = "load"
    /\ UNCHANGED <<p_video, p_segments, p_frames, p_loaded, p_rest>>

\* package.py:62-95
P_Load ==
    /\ p_pc = "load"
    /\ p_loaded' = load(p_archive)
    /\ p_pc' = "loaded"
    /\ UNCHANGED <<p_video, p_segments, p_frames, p_archive, p_rest>>

\* package.py:30 or 67-75 with the Video of types.py:18-25: AttributeError
\* on video.page_url, TypeError on Video(page_url=...)
P_Raise ==
    /\ p_pc \in {"create", "load"}
    /\ p_pc' = "raised"
    /\ UNCHANGED <<p_video, p_segments, p_frames, p_archive, p_loaded, p_rest>>

PackageNext == P_Create \/ P_Load \/ P_Raise

PackageSpec == PackageInit /\ [][PackageNext]_vars

\* an archive file has been written
Written == p_archive # <<>>

\* ---------------------------------------------------------------------- C19

\* C19: in every archive package.create wrote, the manifest's segments and
\* the parquet table have the same length and the same order: manifest
\* segment i and parquet row i carry the same segment_id.
C19_ManifestMatchesTable ==
    Written =>
        /\ Len(p_archive.manifest.segments) = Len(p_archive.parquet)
        /\ \A i \in DOMAIN p_archive.parquet :
               p_archive.manifest.segments[i].segment_id = p_archive.parquet[i].segment_id

\* an archive of two segments with different ids has been written
C19_Witness ==
    /\ Written
    /\ Len(p_archive.parquet) = 2
    /\ p_archive.parquet[1].segment_id # p_archive.parquet[2].segment_id

\* ---------------------------------------------------------------------- C20

\* C20: create followed by load is a round trip: the Video load returns
\* equals the input in every header field (status, source_url, page_url and
\* collection included), the segments equal the input in every field, and
\* the archive holds every frame file.
C20_RoundTrip ==
    p_pc = "loaded" =>
        /\ p_loaded.video = p_video
        /\ p_loaded.segments = p_segments
        /\ \A n \in p_frames.files : <<"frames", n>> \in p_archive.frames

\* what does hold: the round trip of a video whose status is "ready" and
\* whose collection is empty, with segments of that video that have no
\* embedding and no collection
C20_Restricted ==
    /\ p_pc = "loaded"
    /\ p_video.status = "ready"
    /\ p_video.collection = ""
    /\ \A i \in DOMAIN p_segments :
           /\ p_segments[i].video_id = p_video.video_id
           /\ p_segments[i].text_embedding = 0
           /\ p_segments[i].collection = ""
    => /\ p_loaded.video = p_video
       /\ p_loaded.segments = p_segments
       /\ \A n \in p_frames.files : <<"frames", n>> \in p_archive.frames

\* ======================================================== the vector index
\*
\* vector.Database: add, _ensure_merged, closest, list_segments, count.  An
\* embedding is a vector of two components, one of them zero, so that its
\* length is the sum of its components and normalizing it is exact.  numpy's
\* float16 and float32 rounding is left out.  A table is kept with its
\* embedding chunk, as _tables and _embedding_chunks are always appended to
\* together.

\* most tables added to a Database, most rows of a table
MaxTables == 2
MaxRows == 2

Collections == {"prelinger", "youtube"}

Embeddings == {<<1, 0>>, <<2, 0>>, <<0, 1>>}

\* a query vector; the zero vector included
Queries == {<<1, 0>>, <<0, 1>>, <<0, 0>>}

\* collections: list[str] | None
NoFilter == [given |-> FALSE, names |-> {}]
Filters == {NoFilter} \cup {[given |-> TRUE, names |-> S] : S \in SUBSET Collections}

\* `if collections:` - neither None nor empty
Truthy(C) == C.given /\ C.names # {}

\* np.linalg.norm of a vector with one component zero
Norm(v) == v[1] + v[2]

\* vector.py:36-38, 88: v / norm, a zero norm taken as 1
Unit(v) == IF Norm(v) = 0 THEN v ELSE <<v[1] \div Norm(v), v[2] \div Norm(v)>>

\* chunk @ q
Dot(a, b) == a[1] * b[1] + a[2] * b[2]

\* -np.inf: below every score
NegInf == 0 - 2

\* the sequences of k different elements of S
Orders(S, k) == {p \in [1..k -> S] : \A i, j \in 1..k : i # j => p[i] # p[j]}

\* the segments of table number t: ids, video and cells as given
IndexSegments(t, cells) ==
    [r \in DOMAIN cells |->
        [segment_id |-> ToString(t) \o "_" \o ToString(r), video_id |-> ToString(t),
         collection |-> cells[r].collection, text_embedding |-> cells[r].text_embedding]]

\* vector.py:46-71: add and add_table - the table without its embedding
\* column, and the embedding chunk
AddTable(segments) ==
    IF Len(segments) = 0
    THEN _tables
    ELSE Append(_tables,
            [rows |-> [r \in DOMAIN segments |->
                          [segment_id |-> segments[r].segment_id,
                           video_id |-> segments[r].video_id,
                           collection |-> segments[r].collection]],
             chunk |-> [r \in DOMAIN segments |-> segments[r].text_embedding]])

\* None
NoTable == [is_none |-> TRUE, rows |-> <<>>, embeddings |-> <<>>]

RECURSIVE ConcatRows(_, _)
\* pa.concat_tables / np.concatenate of the tables in the order p
ConcatRows(p, field) ==
    IF p = <<>> THEN <<>> ELSE _tables[Head(p)][field] \o ConcatRows(Tail(p), field)

\* variant: the tables are shuffled, the embedding chunks stay in the order
\* they were added
EnsureMergedUnpaired ==
    IF ~_merged.is_none THEN {_merged}
    ELSE IF _tables = <<>> THEN {NoTable}
    ELSE LET chunks == ConcatRows([i \in DOMAIN _tables |-> i], "chunk") IN
         {[is_none |-> FALSE,
           rows |-> ConcatRows(p, "rows"),
           embeddings |-> [i \in DOMAIN chunks |-> Unit(chunks[i])]]
          : p \in Orders(DOMAIN _tables, Len(_tables))}

\* vector.py:25-40: the merged table _ensure_merged returns - the one kept,
\* None without tables, else the tables in any order (random.shuffle) with
\* every embedding normalized
EnsureMerged ==
    IF ~_merged.is_none THEN {_merged}
    ELSE IF _tables = <<>> THEN {NoTable}
    ELSE {[is_none |-> FALSE,
           rows |-> ConcatRows(p, "rows"),
           embeddings |-> [i \in DOMAIN ConcatRows(p, "chunk") |-> Unit(ConcatRows(p, "chunk")[i])]]
          : p \in Orders(DOMAIN _tables, Len(_tables))}

\* vector.py:95-101, 142-147, 176-181: the rows the collection mask keeps
Mask(rows, C) == {i \in DOMAIN rows : rows[i].collection \in C.names}

\* vector.py:89-102: the score of every row, -inf outside the filter
Scores(m, q, C) ==
    [i \in DOMAIN m.rows |->
        IF Truthy(C) /\ i \notin Mask(m.rows, C) THEN NegInf ELSE Dot(m.embeddings[i], Unit(q))]

Descending(scores, idx) == \A i, j \in DOMAIN idx : i < j => scores[idx[i]] >= scores[idx[j]]

\* vector.py:104-109: argsort of all rows, or argpartition of the n best and
\* their argsort; rows of equal score in any order
TopIdx(scores, n) ==
    LET len == Len(scores)
        k == IF n < len THEN n ELSE len
    IN IF k >= len
       THEN {idx \in Orders(1..len, len) : Descending(scores, idx)}
       ELSE {idx \in Orders(1..len, k) :
                /\ Descending(scores, idx)
                /\ \A i \in 1..k, j \in 1..len :
                       (\A h \in 1..k : idx[h] # j) => scores[idx[i]] >= scores[j]}

\* the loop of vector.py:113-118 with the break of 114-115 left out
UpToInfNever(scores, idx) == Len(idx)

\* vector.py:113-115: how many of idx the loop reaches before the first -inf
UpToInf(scores, idx) ==
    IF \A k \in DOMAIN idx : scores[idx[k]] # NegInf THEN Len(idx)
    ELSE (CHOOSE k \in DOMAIN idx :
             scores[idx[k]] = NegInf /\ \A h \in 1..(k - 1) : scores[idx[h]] # NegInf) - 1

\* vector.py:80-119: what closest can return on the merged table m
closest(m, q, n, C) ==
    IF m.is_none \/ Norm(q) = 0 THEN {<<>>}
    ELSE LET scores == Scores(m, q, C) IN
         {[k \in 1..UpToInf(scores, idx) |->
              [segment_id |-> m.rows[idx[k]].segment_id,
               video_id |-> m.rows[idx[k]].video_id,
               collection |-> m.rows[idx[k]].collection,
               _distance |-> 1 - scores[idx[k]]]]
          : idx \in TopIdx(scores, n)}

RECURSIVE Filtered(_, _)
\* table.filter(mask): the rows the mask keeps, in order
Filtered(rows, C) ==
    IF rows = <<>> THEN <<>>
    ELSE (IF Head(rows).collection \in C.names THEN <<Head(rows)>> ELSE <<>>)
         \o Filtered(Tail(rows), C)

\* count without the filter of vector.py:176-182
countUnfiltered(m, C) == Len(m.rows)

\* vector.py:172-183
count(m, C) ==
    IF m.is_none THEN 0
    ELSE IF Truthy(C) THEN Len(Filtered(m.rows, C)) ELSE Len(m.rows)

\* a slice that ignores its offset
SliceFromStart(rows, offset, length) ==
    IF length < Len(rows) THEN SubSeq(rows, 1, length) ELSE rows

\* table.slice(offset, length)
Slice(rows, offset, length) ==
    LET last == IF offset + length < Len(rows) THEN offset + length ELSE Len(rows)
    IN IF offset >= Len(rows) THEN <<>> ELSE SubSeq(rows, offset + 1, last)

\* vector.py:138-154
list_segments(m, offset, limit, C) ==
    IF m.is_none THEN <<>>
    ELSE Slice(IF Truthy(C) THEN Filtered(m.rows, C) ELSE m.rows, offset, limit)

\* what the index steps leave alone
i_rest == <<sched, run, skip_enrich, data, trans, frm, pkg, videos, rtt_paths_by_video>>

\* Database.memory() and the tables to be added, their cells any of `tables`
IndexStart(tables) ==
    /\ BatchInit
    /\ jobs = [j \in JobIdx |-> [video_id |-> "a", youtube |-> FALSE]]
    /\ pool = [s \in StageSet |-> 1]
    /\ skip_enrich = FALSE
    /\ IdleBut("server")
    /\ s_pc = "index"
    /\ \E cells \in tables : s_files = [t \in DOMAIN cells |-> IndexSegments(t, cells[t])]
    /\ s_i = 0
    /\ videos = <<>>
    /\ rtt_paths_by_video = <<>>
    /\ _tables = <<>>
    /\ _merged = NoTable
    /\ s_call = [op |-> "none"]
    /\ s_result = <<>>

IndexInit ==
    IndexStart(SeqsOf(SeqsOf([collection : Collections, text_embedding : Embeddings], 1, MaxRows),
                      1, MaxTables))

\* no call is under way
Ready == s_call.op = "none"

\* vector.py:46-71: db.add(segments)
I_Add ==
    /\ s_pc = "index"
    /\ Ready
    /\ s_i < Len(s_files)
    /\ _tables' = AddTable(s_files[s_i + 1])
    /\ _merged' = IF Len(s_files[s_i + 1]) = 0 THEN _merged ELSE NoTable
    /\ s_i' = s_i + 1
    /\ UNCHANGED <<s_pc, s_files, s_call, s_result, i_rest>>

\* vector.py:80-119: db.closest(q, n, C)
I_Closest(q, n, C) ==
    /\ s_pc = "index"
    /\ Ready
    /\ \E m \in EnsureMerged :
          /\ _merged' = m
          /\ s_result' \in closest(m, q, n, C)
    /\ s_call' = [op |-> "closest", q |-> q, n |-> n, C |-> C]
    /\ UNCHANGED <<s_pc, s_files, s_i, _tables, i_rest>>

\* vector.py:138-154: db.list_segments(offset, limit, C)
I_List(offset, limit, C) ==
    /\ s_pc = "index"
    /\ Ready
    /\ \E m \in EnsureMerged :
          /\ _merged' = m
          /\ s_result' = list_segments(m, offset, limit, C)
    /\ s_call' = [op |-> "list_segments", offset |-> offset, limit |-> limit, C |-> C]
    /\ UNCHANGED <<s_pc, s_files, s_i, _tables, i_rest>>

\* vector.py:172-183: db.count(C)
I_Count(C) ==
    /\ s_pc = "index"
    /\ Ready
    /\ \E m \in EnsureMerged :
          /\ _merged' = m
          /\ s_result' = <<count(m, C)>>
    /\ s_call' = [op |-> "count", C |-> C]
    /\ UNCHANGED <<s_pc, s_files, s_i, _tables, i_rest>>

\* the call has returned to its caller
I_Return ==
    /\ s_pc = "index"
    /\ ~Ready
    /\ s_call' = [op |-> "none"]
    /\ s_result' = <<>>
    /\ UNCHANGED <<s_pc, s_files, s_i, _tables, _merged, i_rest>>

IndexNext ==
    \/ I_Add
    \/ I_Return
    \/ \E q \in Queries, n \in 0..(MaxRows + 1), C \in Filters : I_Closest(q, n, C)
    \/ \E offset \in 0..1, limit \in 0..(MaxRows + 1), C \in Filters : I_List(offset, limit, C)
    \/ \E C \in Filters : I_Count(C)

IndexSpec == IndexInit /\ [][IndexNext]_vars

\* ---------------------------------------------------------------------- C21

\* the rows of the merged table that a filter keeps
Kept(C) == {_merged.rows[i].segment_id : i \in Mask(_merged.rows, C)}

\* C21: closest(q, n, C) with a non-empty collection set C returns at most n
\* rows, no row whose collection is outside C, and rows of non-decreasing
\* _distance; a row the filter excludes is never returned, even when fewer
\* than n rows match.
C21_ClosestFiltered ==
    (s_call.op = "closest" /\ Truthy(s_call.C)) =>
        /\ Len(s_result) <= s_call.n
        /\ \A k \in DOMAIN s_result : s_result[k].collection \in s_call.C.names
        /\ \A k \in DOMAIN s_result : s_result[k].segment_id \in Kept(s_call.C)
        /\ \A h, k \in DOMAIN s_result : h < k => s_result[h]._distance <= s_result[k]._distance

\* a filtered search that matched fewer than n rows, of different distances,
\* on an index holding rows outside the filter
C21_Witness ==
    /\ s_call.op = "closest"
    /\ Truthy(s_call.C)
    /\ Len(s_result) = 2
    /\ s_call.n > 2
    /\ s_result[1]._distance < s_result[2]._distance
    /\ Len(_merged.rows) > 2

\* ---------------------------------------------------------------------- C22

\* the segments added so far
Indexed == UNION {{s_files[t][r] : r \in DOMAIN s_files[t]} : t \in 1..s_i}

\* C22: closest(q, n), n >= 1, with q the embedding of an indexed segment s
\* returns s as the first row, at a distance of (almost) zero, whatever else
\* is indexed, segments of the same direction included.
C22_SelfFirst ==
    (s_call.op = "closest" /\ ~Truthy(s_call.C) /\ s_call.n >= 1) =>
        \A s \in Indexed :
            s.text_embedding = s_call.q =>
                /\ Len(s_result) >= 1
                /\ s_result[1].segment_id = s.segment_id
                /\ s_result[1]._distance = 0

\* what does hold: the first row is at distance zero, and it is s when no
\* other indexed segment has the direction of s
C22_SelfFirstAlone ==
    (s_call.op = "closest" /\ ~Truthy(s_call.C) /\ s_call.n >= 1) =>
        \A s \in Indexed :
            s.text_embedding = s_call.q =>
                /\ Len(s_result) >= 1
                /\ s_result[1]._distance = 0
                /\ (\A o \in Indexed : Unit(o.text_embedding) = Unit(s.text_embedding) => o = s)
                       => s_result[1].segment_id = s.segment_id

\* ---------------------------------------------------------------------- C23

\* C23: for every collection filter C - absent, empty or not - count(C) is
\* the number of rows list_segments(0, count(C), C) returns, and every row
\* list_segments returns under a non-empty C has its collection in C.
C23_CountIsListing ==
    /\ s_pc = "index" =>
          \A C \in Filters :
              count(_merged, C) = Len(list_segments(_merged, 0, count(_merged, C), C))
    /\ (s_call.op = "list_segments" /\ Truthy(s_call.C)) =>
          \A k \in DOMAIN s_result : s_result[k].collection \in s_call.C.names

\* a listing under a filter that keeps one row of three
C23_Witness ==
    /\ s_call.op = "list_segments"
    /\ Truthy(s_call.C)
    /\ s_call.offset = 0
    /\ s_call.limit = count(_merged, s_call.C)
    /\ Len(s_result) = 1
    /\ Len(_merged.rows) = 3

\* ====================================================== the search service
\*
\* server.create_app: the archives found are loaded or skipped one by one,
\* the index is merged and compacted, and then requests are served.
\* package.load_metadata and embed.py are not part of the sources; an archive
\* is taken to give what batch.py writes into it - one header and rows that
\* carry the header's video_id and collection - and the embedder to be the
\* one of the tests.

\* most archives found at boot
MaxFiles == 2

\* the width the service wants, and another
BadWidth == 512

\* text_embedding's type: list_size is 0 for a list of no fixed size, whose
\* rows have the lengths given
EmbTypes ==
    {[list_size |-> w, lengths |-> [r \in 1..k |-> w]] : w \in {BadWidth, Dim}, k \in 1..MaxRows}
    \cup {[list_size |-> 0, lengths |-> l] : l \in SeqsOf({BadWidth, Dim}, 1, MaxRows)}

Archives ==
    [video_id : VideoIds, source_url : {"", "https://archive.org/v.mp4"},
     collection : Collections, emb : EmbTypes]

\* what load_metadata gives for an archive: the header and the table, the
\* first row about the bomb, the second about the cake
LoadMetadata(a) ==
    [vid |-> [video_id |-> a.video_id, title |-> "t", source_url |-> a.source_url,
              page_url |-> "", collection |-> a.collection, context |-> "c"],
     arrow_table |-> [r \in DOMAIN a.emb.lengths |->
        [segment_id |-> a.video_id \o "_0000" \o ToString(r - 1), video_id |-> a.video_id,
         collection |-> a.collection,
         text_embedding |-> IF r = 1 THEN <<1, 0>> ELSE <<0, 1>>]]]

\* the check of a fixed list_size alone
WrongWidthFixedOnly(a) == a.emb.list_size # 0 /\ a.emb.list_size # Dim

\* server.py:88-97: the archive is skipped
WrongWidth(a) ==
    IF a.emb.list_size # 0
    THEN a.emb.list_size # Dim
    ELSE \E r \in DOMAIN a.emb.lengths : a.emb.lengths[r] # Dim

\* server.py:99-106; an empty remote_url or page_url stands for None, and
\* the archive's number for its path and directory
VideoInfo(vid, k) ==
    [title |-> vid.title, remote_url |-> vid.source_url, page_url |-> vid.page_url,
     collection |-> vid.collection, context |-> vid.context, local_dir |-> k]

\* what the service steps leave alone
s_rest == <<sched, run, skip_enrich, data, trans, frm, pkg>>

ServerInit ==
    /\ BatchInit
    /\ jobs = [j \in JobIdx |-> [video_id |-> "a", youtube |-> FALSE]]
    /\ pool = [s \in StageSet |-> 1]
    /\ skip_enrich = FALSE
    /\ IdleBut("server")
    /\ s_pc = "boot"
    /\ s_files \in SeqsOf(Archives, 1, MaxFiles)
    /\ s_i = 0
    /\ videos = <<>>
    /\ rtt_paths_by_video = <<>>
    /\ _tables = <<>>
    /\ _merged = NoTable
    /\ s_call = [op |-> "none"]
    /\ s_result = <<>>

\* server.py:83-109: one archive of rtt_files, skipped or registered and added
S_Load ==
    /\ s_pc = "boot"
    /\ s_i < Len(s_files)
    /\ s_i' = s_i + 1
    /\ LET a == s_files[s_i + 1]
           m == LoadMetadata(a)
       IN IF WrongWidth(a)
          THEN UNCHANGED <<videos, rtt_paths_by_video, _tables>>
          ELSE /\ videos' = (m.vid.video_id :> VideoInfo(m.vid, s_i + 1)) @@ videos
               /\ rtt_paths_by_video' = (m.vid.video_id :> s_i + 1) @@ rtt_paths_by_video
               /\ _tables' = AddTable(m.arrow_table)
    /\ UNCHANGED <<s_pc, s_files, _merged, s_call, s_result, s_rest>>

\* variant: the service starts serving with the merge left to the first request
S_MergeLazy ==
    /\ s_pc = "boot"
    /\ s_i = Len(s_files)
    /\ s_pc' = "serving"
    /\ UNCHANGED <<s_files, s_i, videos, rtt_paths_by_video, _tables, _merged, s_call, s_result,
                   s_rest>>

\* server.py:114-118: db._ensure_merged() and db.compact()
S_Merge ==
    /\ s_pc = "boot"
    /\ s_i = Len(s_files)
    /\ _merged' \in EnsureMerged
    /\ _tables' = <<>>
    /\ s_pc' = "serving"
    /\ UNCHANGED <<s_files, s_i, videos, rtt_paths_by_video, s_call, s_result, s_rest>>

\* the value of a text parameter; q.strip()
SearchTexts == {"", " ", "nuclear"}
Stripped(q) == IF q = " " THEN "" ELSE q

\* tests/test_server.py:12-23: FakeEmbedder.embed
Embed(q) == IF q = "nuclear" THEN <<1, 0>> ELSE <<0, 1>>

\* the collections parameter, as collections.split(",") gives it:
\* "", "prelinger", "prelinger,youtube", ","
Csvs == {<<"">>, <<"prelinger">>, <<"prelinger", "youtube">>, <<"", "">>}

\* server.py:222, 259: [c for c in collections.split(",") if c] if collections else None
ColFilter(csv) ==
    IF csv = <<"">> THEN NoFilter
    ELSE [given |-> TRUE, names |-> {csv[i] : i \in {k \in DOMAIN csv : csv[k] # ""}}]

\* vector.py:125-136: the row pyarrow.compute.index finds, with its embedding
get_segment(m, segment_id) ==
    LET hits == {i \in DOMAIN m.rows : m.rows[i].segment_id = segment_id} IN
    IF m.is_none \/ hits = {} THEN [found |-> FALSE, text_embedding |-> <<0, 0>>]
    ELSE [found |-> TRUE,
          text_embedding |-> m.embeddings[CHOOSE i \in hits : \A k \in hits : i <= k]]

\* server.py:126-145
_to_result(r, score) ==
    LET known == r.video_id \in DOMAIN videos
        remote_url == IF known THEN videos[r.video_id].remote_url ELSE ""
    IN [video_id |-> r.video_id,
        segment_id |-> r.segment_id,
        source_url |-> IF remote_url # "" THEN remote_url ELSE "/video/" \o r.video_id,
        collection |-> IF known THEN videos[r.video_id].collection ELSE "",
        score |-> score]

\* the empty query refused before the segment_id is looked at
BranchQueryFirst(q, segment_id) ==
    IF Stripped(q) = "" THEN "empty" ELSE IF segment_id # "" THEN "similar" ELSE "text"

\* server.py:224, 233: which way search goes
Branch(q, segment_id) ==
    IF segment_id # "" THEN "similar" ELSE IF Stripped(q) = "" THEN "empty" ELSE "text"

\* Query(ge=lo, le=200)
Valid(x, lo) == lo <= x /\ x <= 200

Error(code) == [status |-> code, query |-> "", results |-> <<>>]

\* server.py:215-239: GET /search
S_Search(q, segment_id, csv, n) ==
    /\ s_pc = "serving"
    /\ Ready
    /\ s_call' = [op |-> "search", q |-> q, segment_id |-> segment_id, csv |-> csv, n |-> n]
    /\ LET way == Branch(q, segment_id) IN
       IF ~Valid(n, 1) THEN s_result' = Error(422) /\ UNCHANGED _merged
       ELSE IF way = "empty" THEN s_result' = Error(400) /\ UNCHANGED _merged
       ELSE \E m \in EnsureMerged :
              LET seg == get_segment(m, segment_id)
                  query_vec == IF way = "similar" THEN seg.text_embedding ELSE Embed(q)
              IN /\ _merged' = m
                 /\ IF way = "similar" /\ ~seg.found THEN s_result' = Error(404)
                    ELSE \E raw \in closest(m, query_vec, n, ColFilter(csv)) :
                           s_result' =
                               [status |-> 200,
                                query |-> IF way = "similar" THEN "similar:" \o segment_id ELSE q,
                                results |-> [k \in DOMAIN raw |->
                                                _to_result(raw[k], raw[k]._distance)]]
    /\ UNCHANGED <<s_pc, s_files, s_i, videos, rtt_paths_by_video, _tables, s_rest>>

\* server.py:252-263: GET /segments
S_Segments(offset, limit, csv) ==
    /\ s_pc = "serving"
    /\ Ready
    /\ s_call' = [op |-> "segments", offset |-> offset, limit |-> limit, csv |-> csv]
    /\ IF ~(Valid(offset, 0) /\ Valid(limit, 1))
       THEN /\ s_result' = [status |-> 422, segments |-> <<>>, total |-> 0,
                            offset |-> offset, limit |-> limit]
            /\ UNCHANGED _merged
       ELSE \E m \in EnsureMerged :
              LET rows == list_segments(m, offset, limit, ColFilter(csv)) IN
              /\ _merged' = m
              /\ s_result' = [status |-> 200,
                              segments |-> [k \in DOMAIN rows |-> _to_result(rows[k], 0)],
                              total |-> count(m, ColFilter(csv)),
                              offset |-> offset, limit |-> limit]
    /\ UNCHANGED <<s_pc, s_files, s_i, videos, rtt_paths_by_video, _tables, s_rest>>

\* the start_seconds column: the r-th row of an archive starts at second r - 1
start_seconds(row) == IF row.segment_id = row.video_id \o "_00000" THEN 0 ELSE 1

\* vector.py:156-170: the rows of one video, in a stable sort by start_seconds
video_segments(m, video_id) ==
    IF m.is_none THEN <<>>
    ELSE LET hits == {i \in DOMAIN m.rows : m.rows[i].video_id = video_id}
             idx == CHOOSE p \in Orders(hits, Cardinality(hits)) :
                        \A i, j \in DOMAIN p :
                            i < j => \/ start_seconds(m.rows[p[i]]) < start_seconds(m.rows[p[j]])
                                     \/ /\ start_seconds(m.rows[p[i]]) = start_seconds(m.rows[p[j]])
                                        /\ p[i] < p[j]
         IN [k \in DOMAIN idx |-> m.rows[idx[k]]]

\* server.py:241-250: GET /static/video/{video_id}/segments
S_VideoSegments(video_id) ==
    /\ s_pc = "serving"
    /\ Ready
    /\ s_call' = [op |-> "video_segments", video_id |-> video_id]
    /\ IF video_id \notin DOMAIN videos
       THEN s_result' = [status |-> 404, segments |-> <<>>] /\ UNCHANGED _merged
       ELSE \E m \in EnsureMerged :
              LET rows == video_segments(m, video_id) IN
              /\ _merged' = m
              /\ s_result' = [status |-> 200,
                              segments |-> [k \in DOMAIN rows |-> _to_result(rows[k], 0)]]
    /\ UNCHANGED <<s_pc, s_files, s_i, videos, rtt_paths_by_video, _tables, s_rest>>

\* sorted(col_data.items())
SortedCollections == <<"prelinger", "youtube">>

\* server.py:265-279: GET /collections; db.count is called once for every
\* collection some video has
S_Collections ==
    /\ s_pc = "serving"
    /\ Ready
    /\ s_call' = [op |-> "collections"]
    /\ LET InUse(col) == \E v \in DOMAIN videos : videos[v].collection = col
           cols == SelectSeq(SortedCollections, InUse)
       IN IF cols = <<>>
          THEN s_result' = [status |-> 200, collections |-> <<>>] /\ UNCHANGED _merged
          ELSE \E m \in EnsureMerged :
                 /\ _merged' = m
                 /\ s_result' =
                        [status |-> 200,
                         collections |->
                            [k \in DOMAIN cols |->
                                [id |-> cols[k],
                                 video_count |->
                                    Cardinality({v \in DOMAIN videos : videos[v].collection = cols[k]}),
                                 segment_count |->
                                    count(m, [given |-> TRUE, names |-> {cols[k]}])]]]
    /\ UNCHANGED <<s_pc, s_files, s_i, videos, rtt_paths_by_video, _tables, s_rest>>

\* the response has been sent
S_Return ==
    /\ s_pc = "serving"
    /\ ~Ready
    /\ s_call' = [op |-> "none"]
    /\ s_result' = <<>>
    /\ UNCHANGED <<s_pc, s_files, s_i, videos, rtt_paths_by_video, _tables, _merged, s_rest>>

ServerNext ==
    \/ S_Load
    \/ S_Merge
    \/ S_Return
    \/ \E q \in SearchTexts, segment_id \in {"", "a_00000", "zz"}, csv \in Csvs, n \in 0..MaxRows :
          S_Search(q, segment_id, csv, n)
    \/ \E offset \in 0..(MaxRows + 1), limit \in 0..MaxRows, csv \in Csvs :
          S_Segments(offset, limit, csv)
    \/ \E video_id \in {"a", "b", "zz"} : S_VideoSegments(video_id)
    \/ S_Collections

ServerSpec == ServerInit /\ [][ServerNext]_vars

\* ---------------------------------------------------------------------- C24

\* archive number k has an embedding that is not 768 wide
Skipped(k) == \E r \in DOMAIN s_files[k].emb.lengths : s_files[k].emb.lengths[r] # Dim

RECURSIVE RowsLoaded(_)
\* the number of rows of the first k archives that were not skipped
RowsLoaded(k) ==
    IF k = 0 THEN 0
    ELSE RowsLoaded(k - 1) + (IF Skipped(k) THEN 0 ELSE Len(s_files[k].emb.lengths))

\* C24: at boot every archive whose embedding width is not 768 is skipped
\* and the service comes up: the skipped archive is not registered and none
\* of its segments is indexed, every other archive is registered and all its
\* segments are indexed and listed.
C24_BadWidthSkipped ==
    s_pc = "serving" =>
        /\ Len(_merged.rows) = RowsLoaded(Len(s_files))
        /\ count(_merged, NoFilter) = RowsLoaded(Len(s_files))
        /\ \A k \in DOMAIN s_files :
              IF Skipped(k)
              THEN /\ \A v \in DOMAIN rtt_paths_by_video : rtt_paths_by_video[v] # k
                   /\ \A v \in DOMAIN videos : videos[v].local_dir # k
                   /\ (\A h \in DOMAIN s_files : s_files[h].video_id = s_files[k].video_id => Skipped(h))
                         => /\ s_files[k].video_id \notin DOMAIN videos
                            /\ \A i \in DOMAIN _merged.rows :
                                   _merged.rows[i].video_id # s_files[k].video_id
              ELSE /\ s_files[k].video_id \in DOMAIN videos
                   /\ \E i \in DOMAIN _merged.rows : _merged.rows[i].video_id = s_files[k].video_id

\* the service is up with one archive skipped for a row of width 512 in a
\* list of no fixed size, and another archive loaded
C24_Witness ==
    /\ s_pc = "serving"
    /\ Len(s_files) = 2
    /\ Skipped(1) /\ s_files[1].emb.list_size = 0
    /\ ~Skipped(2)
    /\ s_files[1].video_id # s_files[2].video_id
    /\ s_call.op = "segments" /\ s_result.status = 200 /\ s_result.total > 0

\* ---------------------------------------------------------------------- C25

\* C25: GET /search with q empty or only whitespace and no segment_id
\* answers 400; with a segment_id that is not indexed, 404; with an indexed
\* segment_id, 200 and the query field 'similar:<id>', whatever q is.
C25_SearchStatus ==
    (s_call.op = "search" /\ Valid(s_call.n, 1)) =>
        LET indexed == \E i \in DOMAIN _merged.rows : _merged.rows[i].segment_id = s_call.segment_id
        IN /\ (s_call.segment_id = "" /\ Stripped(s_call.q) = "") => s_result.status = 400
           /\ (s_call.segment_id # "" /\ ~indexed) => s_result.status = 404
           /\ (s_call.segment_id # "" /\ indexed) =>
                 /\ s_result.status = 200
                 /\ s_result.query = "similar:" \o s_call.segment_id

\* a search by an indexed segment_id with an empty q has answered 200
C25_Witness ==
    /\ s_call.op = "search"
    /\ s_call.q = ""
    /\ s_call.segment_id = "a_00000"
    /\ s_result.status = 200
    /\ s_result.query = "similar:a_00000"
    /\ Len(s_result.results) > 0

\* ---------------------------------------------------------------------- C26

\* the results of a search, the segments of a listing
Reported == IF s_call.op = "search" THEN s_result.results ELSE s_result.segments

\* C26: every result of GET /search and GET /segments called with
\* collections=C reports a collection that is a member of C.
C26_ReportedInFilter ==
    (s_call.op \in {"search", "segments"} /\ s_result.status = 200
        /\ Truthy(ColFilter(s_call.csv))) =>
        \A k \in DOMAIN Reported : Reported[k].collection \in ColFilter(s_call.csv).names

\* what does hold: the claim when no two archives are of the same video
C26_DistinctVideos ==
    (\A h, k \in DOMAIN s_files : h # k => s_files[h].video_id # s_files[k].video_id)
        => C26_ReportedInFilter

\* ---------------------------------------------------------------------- C27

\* C27: the source_url of every search result is the service's route
\* /video/{video_id}, with and without a remote source URL in the archive.
C27_SourceUrlIsRoute ==
    (s_call.op = "search" /\ s_result.status = 200) =>
        \A k \in DOMAIN s_result.results :
            s_result.results[k].source_url = "/video/" \o s_result.results[k].video_id

\* what does hold: the claim for archives that record no source URL
C27_NoSourceUrl ==
    (\A k \in DOMAIN s_files : s_files[k].source_url = "") => C27_SourceUrlIsRoute

\* ---------------------------------------------------------------------- C28

\* the rows the listing is about
Listing(C) == IF Truthy(C) THEN Filtered(_merged.rows, C) ELSE _merged.rows

\* the pages of limit L at offsets 0, L, 2L, ... are the listing cut into
\* pieces of L rows; past its end they are empty
Partition(L, C) ==
    \A p \in 0..(MaxFiles * MaxRows) :
        LET page == list_segments(_merged, p * L, L, C)
            total == Len(Listing(C))
            last == IF (p + 1) * L < total THEN (p + 1) * L ELSE total
        IN page = IF p * L >= total THEN <<>> ELSE SubSeq(Listing(C), p * L + 1, last)

\* C28: GET /segments with 0 <= offset and 1 <= limit <= 200 returns total
\* equal to the count under the collection filter and at most limit
\* segments, and its pages partition the listing: offsets 0, L, 2L, ... with
\* limit L give every filtered segment exactly once.
C28_PagesPartition ==
    /\ (s_pc = "serving" /\ Ready) =>
          \A L \in 1..(MaxRows + 1), csv \in Csvs : Partition(L, ColFilter(csv))
    /\ (s_call.op = "segments" /\ Valid(s_call.offset, 0) /\ Valid(s_call.limit, 1)) =>
          LET C == ColFilter(s_call.csv) IN
          /\ s_result.status = 200
          /\ s_result.total = Len(Listing(C))
          /\ Len(s_result.segments) <= s_call.limit
          /\ Len(s_result.segments) = Len(list_segments(_merged, s_call.offset, s_call.limit, C))
          /\ \A k \in DOMAIN s_result.segments :
                 s_result.segments[k].segment_id =
                     list_segments(_merged, s_call.offset, s_call.limit, C)[k].segment_id

\* the second page of one segment of a filtered listing of three
C28_Witness ==
    /\ s_call.op = "segments"
    /\ s_call.offset = 1 /\ s_call.limit = 1
    /\ Truthy(ColFilter(s_call.csv))
    /\ s_result.status = 200
    /\ s_result.total = 3
    /\ Len(s_result.segments) = 1
    /\ s_result.segments[1].segment_id # Listing(ColFilter(s_call.csv))[1].segment_id

\* ---------------------------------------------------------------------- C29
\*
\* _log_failure (batch.py:91-96) takes fail_lock, opens the log for append
\* and writes one line; nothing is awaited while the lock is held and no
\* worker thread writes the log, so the write is one step of the event loop.

\* the step leaves the log alone or appends the line of one job that fails
\* in this step
C29_Append ==
    \/ faillog' = faillog
    \/ \E j \in JobIdx : faillog' = Append(faillog, j) /\ Fails(j)

\* the lines of this run are the jobs that have failed in it, one line each
C29_Lines ==
    /\ {NewLines[i] : i \in DOMAIN NewLines} = {j \in JobIdx : wpc[j] = "failed"}
    /\ Len(NewLines) = Cardinality({j \in JobIdx : wpc[j] = "failed"})

\* C29: appends to the failures log are serialized: under every
\* interleaving of failing workers each failure is one whole line, no record
\* is lost or overwritten, lines already there are never modified, and
\* after the run the log's new lines are exactly the jobs that failed in it.
C29_LogSerialized == [][C29_Append]_vars /\ []C29_Lines

\* a second run has returned with two failures of its own, after the lines
\* of the first run
C29_Witness ==
    /\ opc = "done"
    /\ log_base > 0
    /\ Len(NewLines) = 2
    /\ NewLines[1] # NewLines[2]

\* ---------------------------------------------------------------------- C30
\*
\* process_batch handles no cancellation: on a user interrupt asyncio.run
\* cancels the task awaiting q.join() and then every worker task.  A worker
\* is cancelled at the await it is suspended at; CancelledError is no
\* Exception, so the except branch of the worker does not run.

\* the user interrupts the run while process_batch awaits a join
Interrupt ==
    /\ opc = "join"
    /\ opc' = "interrupted"
    /\ wpc' = [j \in JobIdx |-> IF \E s \in StageSet : j \in held[s] THEN "cancelled" ELSE wpc[j]]
    /\ UNCHANGED <<disk, faillog, args, run, log_base, crashed, aside, oidx, woken, deferred_new,
                   queue, unfinished, held, jstatus, results, done_count, skipped, hist>>

CancelNext == Next \/ Interrupt

CancelSpec == Init /\ [][CancelNext]_vars

\* C30: on a user interrupt during process_batch the workers take no new
\* queue items, every item in flight finishes its stage - its checkpoint
\* saved or its failure logged - and then the run shuts down.
C30_InFlightFinish ==
    opc = "interrupted" => \A j \in JobIdx : wpc[j] # "cancelled"

\* what does hold: after the interrupt no item is taken from a queue
C30_NoNewItems ==
    [][opc = "interrupted" => (queue' = queue /\ held' = held)]_vars


\* ---------------------------------------------------------------------- C31

\* the video_ids whose archive this run skipped or packaged
Produced == {Vid(j) : j \in {i \in JobIdx : wpc[i] \in {"skipped", "packaged"}}}

\* results holds each produced path once and nothing else
C31_EachOnce ==
    \A v \in VideoIds : SeqCount(results, v) = (IF v \in Produced THEN 1 ELSE 0)

\* no path of a failed job is returned
C31_NoFailed == \A j \in JobIdx : wpc[j] = "failed" => SeqCount(results, Vid(j)) = 0

\* C31: process_batch returns exactly the paths of the archives skipped as
\* already existing plus the archives packaged in this run, each path once
\* and no path of a failed job.
C31_ResultsExact == opc = "done" => (C31_EachOnce /\ C31_NoFailed)

\* with distinct video_ids the returned list is exact
C31_ExactDistinct ==
    (opc = "done" /\ \A i, j \in JobIdx : i # j => Vid(i) # Vid(j)) =>
        (C31_EachOnce /\ C31_NoFailed)

\* the packaged archives appear in the order in which their jobs completed:
\* a job that becomes packaged is appended at the end of results
C31_Completion ==
    \A j \in JobIdx :
        (wpc[j] # "packaged" /\ wpc'[j] = "packaged") => results' = Append(results, Vid(j))

C31_CompletionOrder == [][C31_Completion]_vars

\* ---------------------------------------------------------------------- C32

\* a step of the service once it serves leaves the index as it is
C32_IndexKept == s_pc = "serving" => UNCHANGED <<_merged, _tables>>

\* C32: after create_app has loaded the archives, merged and compacted, no
\* request (search by text or by segment, segment listing, collections,
\* video segments) changes the index: the merged table and the embedding
\* matrix are never recomputed or reassigned.
C32_ReadOnlyAfterBoot == [][C32_IndexKept]_vars

\* a video-segments request answered from the merged table of two archives
C32_Witness ==
    /\ s_pc = "serving"
    /\ ~_merged.is_none
    /\ Len(_merged.rows) = 4
    /\ s_call.op = "video_segments"
    /\ s_result.status = 200
    /\ Len(s_result.segments) = 2

\* ---------------------------------------------------------------------- C33

\* transcribe_worker has handled the job in this step
TranscribeStep == d_pc = "transcribe" /\ d_pc' # "transcribe"

\* a platform job is asked for its subtitle track; any other job is not
C33_SubtitlesTried == ("subs" \in d_calls') <=> IsYoutube(1)

\* what follows when `kept` says that the subtitle track gave the segments:
\* the job goes on to Enrich tagged youtube, nothing is downloaded and ASR is
\* not called; ASR is called exactly when there are no such segments (and
\* neither the subtitle service nor the download raised), and a job that
\* passes with its transcript is tagged assemblyai
C33_After(kept) ==
    /\ C33_SubtitlesTried
    /\ kept =>
          /\ d_pc' = "enrich"
          /\ d_status'.transcript_source = "youtube"
          /\ d_calls' \cap {"dl_audio", "asr"} = {}
    /\ (~d_reply'.subs_raised /\ ~d_reply'.dl_raised) =>
          (("asr" \in d_calls') <=> (~IsYoutube(1) \/ ~kept))
    /\ ("asr" \in d_calls' /\ d_pc' = "enrich") => d_status'.transcript_source = "assemblyai"

PoolJobs == <<[video_id |-> "a", youtube |-> FALSE], [video_id |-> "b", youtube |-> TRUE]>>

PoolInit == BatchStart({PoolJobs}, [StageSet -> 1..MaxPool]) /\ AsideIdle

\* the timestamps of the job's two segments
PoolStamps == <<12, 25>>

\* batch.py:246-248 with frames.py:34-57: frames_worker calls extract_remote
\* for job j, the semaphore is made
F_Call(j, concurrency) ==
    /\ At("frames", j, "f_remote")
    /\ f_pc = "idle"
    /\ f_pc' = "remote"
    /\ f_timestamps' = PoolStamps
    /\ f_dir' = {}
    /\ f_paths' = [i \in DOMAIN PoolStamps |-> "pending"]
    /\ f_archive' = [frame_path |-> <<>>, entries |-> {}]
    /\ f_concurrency' = concurrency
    /\ f_sem' = concurrency
    /\ UNCHANGED f_rest

\* the call has been followed to its end
F_Return ==
    /\ f_pc = "packaged"
    /\ f_pc' = "idle"
    /\ f_timestamps' = <<>>
    /\ f_dir' = {}
    /\ f_paths' = <<>>
    /\ f_archive' = <<>>
    /\ f_concurrency' = 0
    /\ f_sem' = 0
    /\ UNCHANGED f_rest

PoolNext ==
    \/ f_pc = "idle" /\ Next
    \/ \E j \in JobIdx, concurrency \in 1..MaxConcurrency : F_Call(j, concurrency)
    \/ \E i \in 1..MaxStamps : F_Acquire(i)
    \/ \E i \in 1..MaxStamps, result \in Ffmpeg : F_One(i, result)
    \/ F_Package
    \/ F_Return

PoolSpec == PoolInit /\ [][PoolNext]_vars

\* ---------------------------------------------------------------------- C34

\* C34: at every moment the number of jobs being processed in a stage is at
\* most that stage's pool size, independently for the four stages, and
\* within one extract_remote call at most `concurrency` frame-extraction
\* subprocesses run at the same time.
C34_Bounded ==
    /\ \A s \in StageSet : Cardinality(held[s]) <= pool[s]
    /\ f_pc = "remote" => Cardinality(Running) <= f_concurrency

\* the frames pool of one worker is busy with a job while the other job
\* waits in its queue, and the call's semaphore of one lets one ffmpeg run
\* while the second timestamp waits
C34_Witness ==
    /\ pool["frames"] = 1
    /\ Cardinality(held["frames"]) = 1
    /\ Len(queue["frames"]) = 1
    /\ pool["embed"] = 2
    /\ f_pc = "remote"
    /\ f_concurrency = 1
    /\ Running = {1}
    /\ Pending = {2}

\* ---------------------------------------------------------------------- C35

\* job k has a checkpoint to resume from and no archive
Resumable(k) == rtt[Vid(k)] = "none" /\ AdmitQueue(LoadStatus(Vid(k))) # "deferred"

\* the step puts a job on the Transcribe queue during admission
PutsNew == opc # "join" /\ Len(queue'["transcribe"]) > Len(queue["transcribe"])

\* when a new job is put on the Transcribe queue every resumable job, later
\* ones of the job list included, is already on its downstream queue
C35_ResumedBefore ==
    PutsNew =>
        \A k \in JobIdx :
            Resumable(k) =>
                /\ admitted[k] \in {"enrich", "embed", "frames"}
                /\ SeqCount(queue[admitted[k]], k) = 1

\* at the end of admission the Transcribe queue holds the new jobs in their
\* input order
C35_InputOrder ==
    (opc = "defer" /\ oidx > Len(deferred_new)) =>
        /\ queue["transcribe"] = deferred_new
        /\ \A i, k \in DOMAIN deferred_new : i < k => deferred_new[i] < deferred_new[k]
        /\ \A j \in JobIdx :
              (rtt[Vid(j)] = "none" /\ ~Resumable(j)) => SeqCount(deferred_new, j) = 1

\* C35: during admission every resumed job is placed on its downstream queue
\* before any brand-new job is placed on the Transcribe queue, for every
\* order of the input job list, and brand-new jobs enter the Transcribe
\* queue in their input order.
C35_ResumedFirst == [][C35_ResumedBefore]_vars /\ []C35_InputOrder

\* the first job of the list is new, the second is resumed: the first has
\* just been put on the Transcribe queue, the second is on its queue
C35_Witness ==
    /\ opc = "defer"
    /\ oidx = 2
    /\ queue["transcribe"] = <<1>>
    /\ Resumable(2)
    /\ admitted[2] \in {"enrich", "embed", "frames"}
    /\ SeqCount(queue[admitted[2]], 2) = 1

\* ============================================ the index, merged and compacted
\*
\* A Database to which tables are added, empty ones included, and which is
\* merged, compacted, counted and asked for segments in any order.

\* most tables added
MaxAdds == 3

CompactInit ==
    IndexStart(SeqsOf(SeqsOf([collection : {"prelinger"}, text_embedding : {<<1, 0>>}], 0, MaxRows),
                      1, MaxAdds))

\* vector.py:25-40: db._ensure_merged()
I_Merge ==
    /\ s_pc = "index"
    /\ Ready
    /\ _merged' \in EnsureMerged
    /\ UNCHANGED <<s_pc, s_files, s_i, _tables, s_call, s_result, i_rest>>

\* vector.py:121-123: db.compact()
I_Compact ==
    /\ s_pc = "index"
    /\ Ready
    /\ _tables' = <<>>
    /\ UNCHANGED <<s_pc, s_files, s_i, _merged, s_call, s_result, i_rest>>

\* vector.py:125-136: db.get_segment(segment_id)
I_Get(segment_id) ==
    /\ s_pc = "index"
    /\ Ready
    /\ \E m \in EnsureMerged :
          /\ _merged' = m
          /\ s_result' = <<get_segment(m, segment_id)>>
    /\ s_call' = [op |-> "get_segment", segment_id |-> segment_id]
    /\ UNCHANGED <<s_pc, s_files, s_i, _tables, i_rest>>

\* the ids asked for: those of the tables, and one of no segment
SegmentIds == {ToString(t) \o "_" \o ToString(r) : t \in 1..MaxAdds, r \in 1..MaxRows} \cup {"zz"}

CompactNext ==
    \/ I_Add
    \/ I_Merge
    \/ I_Compact
    \/ I_Return
    \/ I_Count(NoFilter)
    \/ \E segment_id \in SegmentIds : I_Get(segment_id)

CompactSpec == CompactInit /\ [][CompactNext]_vars

\* ---------------------------------------------------------------------- C36

RECURSIVE RowsAdded(_)
\* the number of rows of the first k tables
RowsAdded(k) == IF k = 0 THEN 0 ELSE RowsAdded(k - 1) + Len(s_files[k])

\* count() is the number of rows added, and a segment added is found
C36_Complete ==
    /\ s_call.op = "count" => s_result[1] = RowsAdded(s_i)
    /\ s_call.op = "get_segment" =>
          (s_result[1].found <=> \E s \in Indexed : s.segment_id = s_call.segment_id)

\* C36: after any sequence of add_table, _ensure_merged, compact and query
\* operations on a Database, count() equals the total number of rows of all
\* non-empty tables added so far and every added segment is found by
\* get_segment.
C36_AllRowsKept == C36_Complete

\* every table added is still in the per-table list: compact has discarded
\* none
NotCompacted == Len(_tables) = Cardinality({t \in 1..s_i : s_files[t] # <<>>})

\* what does hold: the claim for a Database that was not compacted; adding
\* a table after a merge invalidates the merge and the next query sees old
\* and new rows
C36_WithoutCompact == NotCompacted => C36_Complete

\* ---------------------------------------------------------------------- C37

\* the segment added under an id (ids are unique)
SegmentOf(segment_id) == CHOOSE s \in Indexed : s.segment_id = segment_id

\* row i of the merged table and row i of the embedding matrix are of one
\* segment: the row is that of an added segment and the embedding is that
\* segment's, normalized
C37_RowsAligned ==
    ~_merged.is_none =>
        /\ Len(_merged.embeddings) = Len(_merged.rows)
        /\ \A i \in DOMAIN _merged.rows :
              /\ \E s \in Indexed : s.segment_id = _merged.rows[i].segment_id
              /\ _merged.embeddings[i] = Unit(SegmentOf(_merged.rows[i].segment_id).text_embedding)
              /\ _merged.rows[i].collection = SegmentOf(_merged.rows[i].segment_id).collection

\* closest gives every row the distance of its own segment
C37_OwnScore ==
    s_call.op = "closest" =>
        \A k \in DOMAIN s_result :
            s_result[k]._distance =
                1 - Dot(Unit(SegmentOf(s_result[k].segment_id).text_embedding), Unit(s_call.q))

\* C37: for every order the random shuffle in _ensure_merged can choose, row
\* i of the merged table and row i of the merged embedding matrix belong to
\* the same segment: tables and their embedding chunks are permuted as
\* pairs, so get_segment (which reads row i of both) and closest never
\* attach one segment's embedding or score to another segment's metadata.
C37_PairsKept == C37_RowsAligned /\ C37_OwnScore

\* the shuffle put the second table first; its segment and the first
\* table's point in different directions, and closest returned both
C37_Witness ==
    /\ s_i = 2
    /\ ~_merged.is_none
    /\ _merged.rows[1].segment_id = "2_1"
    /\ s_files[1][1].text_embedding = <<1, 0>>
    /\ s_files[2][1].text_embedding = <<0, 1>>
    /\ s_call.op = "closest"
    /\ Len(s_result) >= 2
    /\ s_result[1]._distance # s_result[2]._distance

\* ---------------------------------------------------------------------- C38

\* no video_id is named twice in the job list
DistinctIds == \A i, j \in JobIdx : i # j => Vid(i) # Vid(j)

\* job j is in one of the three outcomes, with what that outcome leaves
Outcome(j) ==
    \/ /\ wpc[j] = "skipped"
       /\ SeqCount(results, Vid(j)) = 1
       /\ SeqCount(NewLines, j) = 0
    \/ /\ wpc[j] = "packaged"
       /\ rtt[Vid(j)] = "ok"
       /\ SeqCount(results, Vid(j)) = 1
       /\ SeqCount(NewLines, j) = 0
    \/ /\ wpc[j] = "failed"
       /\ SeqCount(results, Vid(j)) = 0
       /\ SeqCount(NewLines, j) = 1

\* C38: for a job list with distinct video_ids, when process_batch returns
\* every job is in exactly one of three outcomes: skipped because its
\* archive existed, packaged in this run (its path is in the returned list),
\* or failed with exactly one failures-log line from this run; hence
\* len(results) plus the number of failure lines added is the number of jobs.
C38_OneOutcome ==
    (opc = "done" /\ DistinctIds) =>
        /\ \A j \in JobIdx : Outcome(j)
        /\ Len(results) + Len(NewLines) = NumJobs

\* a second run has returned: one job was skipped, the other failed in it
C38_Witness ==
    /\ opc = "done"
    /\ DistinctIds
    /\ run = 2
    /\ \E i, j \in JobIdx :
        /\ wpc[i] = "skipped"
        /\ wpc[j] = "failed"
        /\ results = <<Vid(i)>>
        /\ NewLines = <<j>>

\* ================================== checkpoints process_batch did not write
\*
\* Before the first run another tool has left a checkpoint file in the
\* output directory: {"status": "ready", "segments": [...]} or
\* {"status": "downloaded"}.  The job list is a direct-URL job followed by a
\* platform job.

ForeignCheckpoints == {"ready", "downloaded"}

ForeignInit == BatchStart({PoolJobs}, SamePools) /\ AsideIdle

\* the file {v}.rtt.json is there when process_batch is called first
ForeignWrite(v, c) ==
    /\ opc = "admit"
    /\ oidx = 1
    /\ run = 1
    /\ ckpt[v] = "absent"
    /\ ckpt' = [ckpt EXCEPT ![v] = c]
    /\ UNCHANGED <<rtt, audio, video, framesdir, faillog, args, run, log_base, crashed, aside,
                   orch, queue, unfinished, held, wpc, jstatus, results, done_count, skipped,
                   hist>>

\* batch.py:313-318: status["segments"] raises KeyError; nothing catches it
\* and process_batch raises
AdmitKeyError ==
    /\ opc = "admit"
    /\ rtt[Vid(oidx)] = "none"
    /\ Parses(Vid(oidx))
    /\ ~Hydrates(Vid(oidx))
    /\ loaded' = loaded \cup {oidx}
    /\ opc' = "raised"
    /\ UNCHANGED <<disk, faillog, args, run, log_base, crashed, aside, oidx, woken,
                   deferred_new, queue, unfinished, held, wpc, jstatus, results,
                   done_count, skipped, called, admitted, last_failed>>

ForeignNext ==
    \/ Next
    \/ AdmitKeyError
    \/ \E v \in VideoIds, c \in ForeignCheckpoints : ForeignWrite(v, c)

ForeignSpec == ForeignInit /\ [][ForeignNext]_vars

\* ---------------------------------------------------------------------- C39

\* the step is the admission loop's, for a job that has no archive and a
\* checkpoint of `kinds`
AdmitsForeign(kinds) ==
    /\ opc = "admit"
    /\ <<opc, oidx>>' # <<opc, oidx>>
    /\ rtt[Vid(oidx)] = "none"
    /\ ckpt[Vid(oidx)] \in kinds

\* the step defers the job to the Transcribe queue and admission goes on
AdmittedAsNew ==
    /\ opc' # "raised"
    /\ deferred_new' = Append(deferred_new, oidx)
    /\ oidx' = (IF opc' = "admit" THEN oidx + 1 ELSE 1)

\* C39: a job whose checkpoint file exists with a status outside {new,
\* transcribed, enriched, embedded} (for example downloaded or ready) or
\* without a segments list is admitted to the Transcribe stage as a new job,
\* and admission of the remaining jobs continues; admission never aborts
\* the run.
C39_ForeignIsNew == [][AdmitsForeign(ForeignCheckpoints) => AdmittedAsNew]_vars

\* what does hold: the claim for a checkpoint that has a segments list
C39_WithSegments == [][AdmitsForeign({"ready"}) => AdmittedAsNew]_vars
=============================================================================
